---- MODULE Spec2Model ----
(***************************************************************************)
(* SentimentScope: the review pipeline (ml_api.py), the read API           *)
(* (db_api.py) and the CSV importer (import_csv.py).                       *)
(*                                                                         *)
(* Text is a sequence of one-character strings.  Confidence scores are     *)
(* hundredths (70 is 0.70), percentages are tenths of a percent (805 is    *)
(* 80.5), star ratings are whole stars (3 is 3.0).                         *)
(***************************************************************************)
EXTENDS Integers, Sequences, FiniteSets, TLC

VARIABLES
    call,           \* the stateless call under way: [fn, arg]
    ret,            \* what the calls made so far returned, oldest first
    models_loaded,  \* ml_api: sentiment_model, embedding_model and nlp are set
    brands,         \* table brands: [brand_id, brand_name, txn]
    phones,         \* table phones: [phone_id, brand_id, phone_name, txn]
    reviews,        \* table reviews: [review_id, phone_id, review_text, txn]
    sentiments,     \* table sentiments: [sentiment_id, review_id,
                    \*   sentiment_label, sentiment_score, txn, upd]
    topics,         \* table topics: [topic_id, phone_id, topic_label, txn]
    review_topics,  \* table review_topics: [review_id, topic_id,
                    \*   relevance_score, txn]
    analysis,       \* the locals and the response of the last analyze_text
    runs,           \* run_sentiment_analysis, per request: its position,
                    \*   locals and response
    response,       \* the last read or clear request served and its response
    csv,            \* import_csv: the file at csv_path, a sequence of rows
    imports,        \* import_csv, per invocation: its position and locals
    topic_run,      \* run_topic_modeling: its position, locals and response
    process_all     \* process_everything: its position and response

(***************************************************************************)
(* A row's txn is 0 once committed and otherwise the connection whose open *)
(* transaction inserted it.  A sentiment row's upd holds the values an     *)
(* open transaction has written over a committed row.                      *)
(***************************************************************************)
pureVars == <<call, ret>>
storeVars == <<brands, phones, reviews, sentiments, topics, review_topics>>
importVars == <<csv, imports>>
topicVars == <<topic_run>>
procVars == <<analysis, runs, response, importVars, topicVars, process_all>>
vars == <<call, ret, models_loaded, brands, phones, reviews, sentiments,
          topics, review_topics, analysis, runs, response, csv, imports,
          topic_run, process_all>>

(***************************************************************************)
(* Characters and the str methods the code uses.                           *)
(***************************************************************************)
LowerLetters == {"a", "b", "r", "s", "x", "y"}
UpperLetters == {"A", "B", "R", "S", "X", "Y"}
Whitespace == {" ", "\t"}

\* str.lower(), one character
lower(c) ==
    CASE c = "A" -> "a" [] c = "B" -> "b" [] c = "R" -> "r"
      [] c = "S" -> "s" [] c = "X" -> "x" [] c = "Y" -> "y"
      [] OTHER -> c

\* str.upper(), one character
upper(c) ==
    CASE c = "a" -> "A" [] c = "b" -> "B" [] c = "r" -> "R"
      [] c = "s" -> "S" [] c = "x" -> "X" [] c = "y" -> "Y"
      [] OTHER -> c

IsCased(c) == c \in LowerLetters \cup UpperLetters

\* str.lower()
lower_text(s) == [i \in 1..Len(s) |-> lower(s[i])]

\* the sequences over S of length at most n
RECURSIVE SeqsUpTo(_, _)
SeqsUpTo(S, n) ==
    IF n = 0 THEN {<<>>}
    ELSE LET shorter == SeqsUpTo(S, n - 1) IN
         shorter \cup {Append(s, c) : s \in {t \in shorter : Len(t) = n - 1}, c \in S}

RECURSIVE lstrip(_)
lstrip(s) ==
    IF s = <<>> THEN <<>>
    ELSE IF Head(s) \in Whitespace THEN lstrip(Tail(s)) ELSE s

RECURSIVE rstrip(_)
rstrip(s) ==
    IF s = <<>> THEN <<>>
    ELSE IF s[Len(s)] \in Whitespace THEN rstrip(SubSeq(s, 1, Len(s) - 1)) ELSE s

\* str.strip()
strip(s) == rstrip(lstrip(s))

\* str.replace("_", " ")
replace_underscores(s) == [i \in 1..Len(s) |-> IF s[i] = "_" THEN " " ELSE s[i]]

\* str.title(): a cased character is upper-cased after an uncased one (or at
\* the start) and lower-cased after a cased one.
title(s) ==
    [i \in 1..Len(s) |->
        IF ~IsCased(s[i]) THEN s[i]
        ELSE IF i > 1 /\ IsCased(s[i - 1]) THEN lower(s[i]) ELSE upper(s[i])]

\* str.split(): the number of whitespace-separated words
WordCount(s) ==
    Cardinality({i \in 1..Len(s) :
        /\ s[i] \notin Whitespace
        /\ (i = 1 \/ s[i - 1] \in Whitespace)})

(***************************************************************************)
(* ml_api.clean_text                                                       *)
(***************************************************************************)
MinTextLen == 10

\* re.sub(r'[^a-zA-Z\s]', '', text)
RECURSIVE KeepLettersAndSpaces(_)
KeepLettersAndSpaces(s) ==
    IF s = <<>> THEN <<>>
    ELSE IF IsCased(Head(s)) \/ Head(s) \in Whitespace
         THEN <<Head(s)>> \o KeepLettersAndSpaces(Tail(s))
         ELSE KeepLettersAndSpaces(Tail(s))

\* re.sub(r'\s+', ' ', text)
RECURSIVE CollapseSpaces(_)
CollapseSpaces(s) ==
    IF s = <<>> THEN <<>>
    ELSE IF Head(s) \in Whitespace
         THEN <<" ">> \o CollapseSpaces(lstrip(s))
         ELSE <<Head(s)>> \o CollapseSpaces(Tail(s))

\* clean_text without its text.lower() step
clean_text_keeping_case(text) ==
    IF text = <<>> \/ Len(strip(text)) < MinTextLen THEN <<>>
    ELSE strip(CollapseSpaces(KeepLettersAndSpaces(text)))

TooShort(text) == text = <<>> \/ Len(strip(text)) < MinTextLen

clean_text(text) ==
    IF TooShort(text) THEN <<>>
    ELSE strip(CollapseSpaces(KeepLettersAndSpaces(lower_text(text))))

(***************************************************************************)
(* ml_api.make_topic_label                                                 *)
(***************************************************************************)
normalize(word) == title(strip(replace_underscores(word)))

RECURSIVE CleanedWords(_)
CleanedWords(words) ==
    IF words = <<>> THEN <<>>
    ELSE IF strip(Head(words)) # <<>>
         THEN <<normalize(Head(words))>> \o CleanedWords(Tail(words))
         ELSE CleanedWords(Tail(words))

StrAnd == <<" ", "a", "n", "d", " ">>
StrCommaAnd == <<",", " ", "a", "n", "d", " ">>
StrComma == <<",", " ">>

RECURSIVE JoinSpace(_)
JoinSpace(ws) ==
    IF ws = <<>> THEN <<>>
    ELSE IF Len(ws) = 1 THEN ws[1]
    ELSE ws[1] \o <<" ">> \o JoinSpace(Tail(ws))

\* make_topic_label without the Oxford comma before "and"
make_topic_label_plain_and(words) ==
    LET cleaned == CleanedWords(words) IN
    IF Len(cleaned) = 2 THEN cleaned[1] \o StrAnd \o cleaned[2]
    ELSE IF Len(cleaned) = 3
         THEN cleaned[1] \o StrComma \o cleaned[2] \o StrAnd \o cleaned[3]
    ELSE IF Len(cleaned) = 1 THEN cleaned[1]
    ELSE JoinSpace(cleaned)

make_topic_label(words) ==
    LET cleaned == CleanedWords(words) IN
    IF Len(cleaned) = 2 THEN cleaned[1] \o StrAnd \o cleaned[2]
    ELSE IF Len(cleaned) = 3
         THEN cleaned[1] \o StrComma \o cleaned[2] \o StrCommaAnd \o cleaned[3]
    ELSE IF Len(cleaned) = 1 THEN cleaned[1]
    ELSE JoinSpace(cleaned)

(***************************************************************************)
(* db_api.compute_star_rating_from_positive_percentage (tenths of a        *)
(* percent in, whole stars out)                                            *)
(***************************************************************************)
\* the breakpoints compared with > instead of >=
star_rating_strict_breakpoints(positive_percentage) ==
    IF positive_percentage > 800 THEN 5
    ELSE IF positive_percentage > 600 THEN 4
    ELSE IF positive_percentage > 400 THEN 3
    ELSE IF positive_percentage > 200 THEN 2
    ELSE 1

compute_star_rating_from_positive_percentage(positive_percentage) ==
    IF positive_percentage >= 800 THEN 5
    ELSE IF positive_percentage >= 600 THEN 4
    ELSE IF positive_percentage >= 400 THEN 3
    ELSE IF positive_percentage >= 200 THEN 2
    ELSE 1

(***************************************************************************)
(* The store.  Rows of an open transaction are seen by its connection      *)
(* only; the unique keys see every row.                                    *)
(***************************************************************************)
Visible(rows, conn) == {r \in rows : r.txn \in {0, conn}}

MaxOf(S) == IF S = {} THEN 0 ELSE CHOOSE m \in S : \A x \in S : x <= m

\* AUTO_INCREMENT
NextId(ids) == MaxOf(ids) + 1

\* conn.commit()
CommitRows(rows, conn) ==
    {IF r.txn = conn THEN [r EXCEPT !.txn = 0] ELSE r : r \in rows}

CommitSentiments(rows, conn) ==
    { LET c == IF r.txn = conn THEN [r EXCEPT !.txn = 0] ELSE r IN
      IF c.upd # <<>> /\ c.upd[1].txn = conn
      THEN [c EXCEPT !.sentiment_label = c.upd[1].sentiment_label,
                     !.sentiment_score = c.upd[1].sentiment_score,
                     !.upd = <<>>]
      ELSE c : r \in rows }

\* The unique keys of the tables (the schema is not part of the sources; the
\* statements INSERT IGNORE and ON DUPLICATE KEY UPDATE rely on them).
BrandKey(row) == row.brand_name
PhoneKey(row) == <<row.brand_id, row.phone_name>>
SentimentKey(row) == row.review_id
TopicKey(row) == <<row.phone_id, row.topic_label>>

EmptyStore ==
    /\ brands = {}
    /\ phones = {}
    /\ reviews = {}
    /\ sentiments = {}
    /\ topics = {}
    /\ review_topics = {}

(***************************************************************************)
(* db_api: the read endpoints.  They see committed rows.  A SQL NULL is     *)
(* Null for a text, 0 for an id, -1 for a score and {} for a GROUP_CONCAT;  *)
(* an AVG is the exact fraction [num, den].  The query strings used differ  *)
(* from the stored names and texts by more than letter case, so the         *)
(* collation of LIKE does not matter.                                       *)
(***************************************************************************)
NoResponse == [endpoint |-> "none"]
Null == <<"NULL">>

Committed(rows) == Visible(rows, 0)

RECURSIVE SetToSeq(_)
SetToSeq(S) ==
    IF S = {} THEN <<>>
    ELSE LET x == CHOOSE y \in S : TRUE IN <<x>> \o SetToSeq(S \ {x})

RECURSIVE SumOf(_, _)
SumOf(S, f) ==
    IF S = {} THEN 0
    ELSE LET x == CHOOSE y \in S : TRUE IN f[x] + SumOf(S \ {x}, f)

\* the first n elements (LIMIT n), all of them when n is 0 (no LIMIT)
Limit(rows, n) == IF n = 0 \/ Len(rows) <= n THEN rows ELSE SubSeq(rows, 1, n)

\* text LIKE '%q%'
Contains(text, q) ==
    /\ text # Null
    /\ \E i \in 0..(Len(text) - Len(q)) : SubSeq(text, i + 1, i + Len(q)) = q

CharOrder ==
    <<"\t", " ", "!", "1", "A", "B", "R", "S", "X", "Y", "_",
      "a", "b", "r", "s", "x", "y">>
CharRank(c) == CHOOSE i \in 1..Len(CharOrder) : CharOrder[i] = c

\* ORDER BY on a text column
RECURSIVE TextLess(_, _)
TextLess(a, b) ==
    IF b = <<>> THEN FALSE
    ELSE IF a = <<>> THEN TRUE
    ELSE IF Head(a) = Head(b) THEN TextLess(Tail(a), Tail(b))
    ELSE CharRank(Head(a)) < CharRank(Head(b))

BrandNameOf(phone) ==
    LET b == {x \in Committed(brands) : x.brand_id = phone.brand_id} IN
    IF b = {} THEN Null ELSE (CHOOSE x \in b : TRUE).brand_name

ReviewsOf(phone_id) == {r \in Committed(reviews) : r.phone_id = phone_id}
SentimentsOf(review_id) == {x \in Committed(sentiments) : x.review_id = review_id}
TopicsOf(phone_id) == {t \in Committed(topics) : t.phone_id = phone_id}

\* CASE WHEN s.sentiment_label = 'positive' THEN 5 ... END
LabelRating(label) ==
    CASE label = "positive" -> 5 [] label = "neutral" -> 3
      [] label = "negative" -> 1 [] OTHER -> 0

\* phones p LEFT JOIN reviews r LEFT JOIN sentiments s, the rows of one phone
JoinedRows(phone) ==
    IF ReviewsOf(phone.phone_id) = {}
    THEN {[review_id |-> 0, review_text |-> Null, sentiment_id |-> 0,
           sentiment_label |-> "NULL", sentiment_score |-> -1]}
    ELSE UNION {
        IF SentimentsOf(r.review_id) = {}
        THEN {[review_id |-> r.review_id, review_text |-> r.review_text,
               sentiment_id |-> 0, sentiment_label |-> "NULL",
               sentiment_score |-> -1]}
        ELSE {[review_id |-> r.review_id, review_text |-> r.review_text,
               sentiment_id |-> x.sentiment_id,
               sentiment_label |-> x.sentiment_label,
               sentiment_score |-> x.sentiment_score]
                 : x \in SentimentsOf(r.review_id)}
        : r \in ReviewsOf(phone.phone_id)}

\* CASE WHEN COUNT(DISTINCT s.sentiment_id) = 0 THEN 3.0 WHEN ... >= 80 ...
SqlStarRating(processed, positive) ==
    IF processed = 0 THEN 3
    ELSE IF positive * 100 >= 80 * processed THEN 5
    ELSE IF positive * 100 >= 60 * processed THEN 4
    ELSE IF positive * 100 >= 40 * processed THEN 3
    ELSE IF positive * 100 >= 20 * processed THEN 2
    ELSE 1

\* the aggregates of one GROUP BY group
PhoneAggregates(phone, rows) ==
    LET review_ids == {j.review_id : j \in rows} \ {0}
        rated == {j \in rows : j.sentiment_id # 0}
        sentiment_ids == {j.sentiment_id : j \in rated}
        positive_ids ==
            {j.sentiment_id : j \in {k \in rated : k.sentiment_label = "positive"}}
        Rating == [j \in rated |-> LabelRating(j.sentiment_label)]
    IN [phone_id |-> phone.phone_id, phone_name |-> phone.phone_name,
        brand_id |-> phone.brand_id, brand_name |-> BrandNameOf(phone),
        review_count |-> Cardinality(review_ids),
        processed_sentiments |-> Cardinality(sentiment_ids),
        avg_sentiment_rating |->
            IF rated = {} THEN [num |-> 3, den |-> 1]
            ELSE [num |-> SumOf(rated, Rating), den |-> Cardinality(rated)],
        star_rating |->
            SqlStarRating(Cardinality(sentiment_ids), Cardinality(positive_ids)),
        topics |-> {t.topic_label : t \in TopicsOf(phone.phone_id)}]

\* ORDER BY review_count DESC, p.phone_name
PhonesOrder(a, b) ==
    \/ a.review_count > b.review_count
    \/ a.review_count = b.review_count /\ TextLess(a.phone_name, b.phone_name)

\* GET /phones (brand_id 0 and search <<>> stand for an absent parameter)
get_phones(brand_id, search, limit) ==
    LET matching == {ph \in Committed(phones) :
            /\ brand_id # 0 => ph.brand_id = brand_id
            /\ search # <<>> => Contains(ph.phone_name, search)}
        results == {PhoneAggregates(ph, JoinedRows(ph)) : ph \in matching}
    IN Limit(SortSeq(SetToSeq(results), PhonesOrder), limit)

\* ORDER BY review_count DESC, processed_sentiments DESC, p.phone_name
SearchOrder(a, b) ==
    \/ a.review_count > b.review_count
    \/ /\ a.review_count = b.review_count
       /\ a.processed_sentiments > b.processed_sentiments
    \/ /\ a.review_count = b.review_count
       /\ a.processed_sentiments = b.processed_sentiments
       /\ TextLess(a.phone_name, b.phone_name)

\* the joined rows of a phone that pass the WHERE of /search
SearchRows(phone, query, sentiment_filter, brand_filter) ==
    {j \in JoinedRows(phone) :
        /\ Contains(phone.phone_name, query) \/ Contains(j.review_text, query)
        /\ sentiment_filter # "" => j.sentiment_label = sentiment_filter
        /\ brand_filter # 0 => phone.brand_id = brand_filter}

\* GET /search ("" and 0 stand for an absent filter)
search_phones(query, sentiment_filter, brand_filter, min_reviews, limit) ==
    LET Rows(ph) == SearchRows(ph, query, sentiment_filter, brand_filter)
        groups == {ph \in Committed(phones) : Rows(ph) # {}}
        having == {g \in {[PhoneAggregates(ph, Rows(ph)) EXCEPT !.topics = {}]
                            : ph \in groups} :
                      min_reviews # 0 => g.review_count >= min_reviews}
        results == Limit(SortSeq(SetToSeq(having), SearchOrder), limit)
    IN [query |-> query, total_results |-> Len(results), phones |-> results]

\* ORDER BY COALESCE(s.sentiment_score, 0) DESC, r.review_id DESC
ReviewsOrder(a, b) ==
    LET sa == IF a.sentiment_score = -1 THEN 0 ELSE a.sentiment_score
        sb == IF b.sentiment_score = -1 THEN 0 ELSE b.sentiment_score
    IN sa > sb \/ (sa = sb /\ a.review_id > b.review_id)

\* GET /reviews with with_sentiment=True
get_reviews(phone_id, limit) ==
    LET rows == UNION {
            {[review_id |-> r.review_id, phone_id |-> r.phone_id,
              review_text |-> r.review_text,
              sentiment_label |-> j.sentiment_label,
              sentiment_score |-> j.sentiment_score]
                : j \in {k \in JoinedRows([phone_id |-> phone_id]) :
                            k.review_id = r.review_id}}
            : r \in ReviewsOf(phone_id)}
    IN Limit(SortSeq(SetToSeq(rows), ReviewsOrder), limit)

\* round(count / total * 100, 1), in tenths of a percent (ties to even, as
\* Python rounds a quotient it can represent exactly)
RoundedPercentage(count, total) ==
    LET q == (count * 1000) \div total
        twice == 2 * ((count * 1000) % total)
    IN IF twice > total \/ (twice = total /\ q % 2 = 1) THEN q + 1 ELSE q

\* GET /sentiments
get_sentiments(phone_id) ==
    LET rows == UNION {SentimentsOf(r.review_id) : r \in ReviewsOf(phone_id)}
        labels == {x.sentiment_label : x \in rows}
        Score == [x \in rows |-> x.sentiment_score]
        total_reviews == Cardinality(rows)
    IN [phone_id |-> phone_id,
        total_reviews |-> total_reviews,
        sentiments |->
            [l \in labels |->
                LET of == {x \in rows : x.sentiment_label = l} IN
                [count |-> Cardinality(of),
                 confidence |-> [num |-> SumOf(of, Score), den |-> Cardinality(of)],
                 min_score |-> CHOOSE m \in {Score[x] : x \in of} :
                                  \A x \in of : m <= Score[x],
                 max_score |-> MaxOf({Score[x] : x \in of}),
                 percentage |-> RoundedPercentage(Cardinality(of), total_reviews)]]]

\* ORDER BY avg_relevance DESC, review_mentions DESC (a NULL average last)
TopicsOrder(a, b) ==
    IF a.avg_relevance.den = 0 \/ b.avg_relevance.den = 0
    THEN \/ a.avg_relevance.den # 0 /\ b.avg_relevance.den = 0
         \/ /\ a.avg_relevance.den = b.avg_relevance.den
            /\ a.review_mentions > b.review_mentions
    ELSE LET l == a.avg_relevance.num * b.avg_relevance.den
             r == b.avg_relevance.num * a.avg_relevance.den
         IN l > r \/ (l = r /\ a.review_mentions > b.review_mentions)

\* GET /topics
get_topics(phone_id) ==
    LET Relevance == [a \in Committed(review_topics) |-> a.relevance_score]
        rows == {
            LET of == {a \in Committed(review_topics) : a.topic_id = t.topic_id} IN
            [topic_id |-> t.topic_id, phone_id |-> t.phone_id,
             topic_label |-> t.topic_label,
             review_mentions |-> Cardinality({a.review_id : a \in of}),
             avg_relevance |-> [num |-> SumOf(of, Relevance),
                                den |-> Cardinality(of)]]
            : t \in TopicsOf(phone_id)}
    IN SortSeq(SetToSeq(rows), TopicsOrder)

\* GET /phones/{phone_id}/complete
get_complete_phone_data(phone_id) ==
    LET found == {ph \in Committed(phones) : ph.phone_id = phone_id} IN
    IF found = {} THEN [status |-> 404]
    ELSE LET ph == CHOOSE x \in found : TRUE
             phone == [phone_id |-> ph.phone_id, phone_name |-> ph.phone_name,
                       brand_id |-> ph.brand_id, brand_name |-> BrandNameOf(ph)]
             sentiment_summary == get_sentiments(phone_id)
             positive_percentage ==
                 IF "positive" \in DOMAIN sentiment_summary.sentiments
                 THEN sentiment_summary.sentiments["positive"].percentage
                 ELSE 0
             star_rating ==
                 compute_star_rating_from_positive_percentage(positive_percentage)
         IN [status |-> 200,
             phone |-> [phone_id |-> phone.phone_id,
                        phone_name |-> phone.phone_name,
                        brand_id |-> phone.brand_id,
                        brand_name |-> phone.brand_name,
                        star_rating |-> star_rating],
             star_rating |-> star_rating,
             sentiments |-> sentiment_summary,
             reviews |-> get_reviews(phone_id, 50),
             topics |-> get_topics(phone_id)]

\* request parameters
BrandParams == {0, 1}
SearchParams == {<<>>, <<"X">>}
LimitParams == {0, 1}
QueryParams == {<<>>, <<"X">>, <<"a", "b">>, <<"s">>}
SentimentParams == {"", "positive"}
MinReviewsParams == {0, 2}
PhoneIdParams == {1, 2, 3}

GetPhones ==
    \E brand_id \in BrandParams, search \in SearchParams, limit \in LimitParams :
        /\ response' = [endpoint |-> "/phones", status |-> 200,
                        body |-> get_phones(brand_id, search, limit)]
        /\ UNCHANGED <<pureVars, process_all, importVars, topicVars, models_loaded, storeVars, analysis, runs>>

SearchPhones ==
    \E query \in QueryParams, sentiment_filter \in SentimentParams,
       brand_filter \in BrandParams, min_reviews \in MinReviewsParams :
        /\ response' = [endpoint |-> "/search", status |-> 200,
                        body |-> search_phones(query, sentiment_filter,
                                               brand_filter, min_reviews, 20)]
        /\ UNCHANGED <<pureVars, process_all, importVars, topicVars, models_loaded, storeVars, analysis, runs>>

GetCompletePhoneData ==
    \E phone_id \in PhoneIdParams :
        /\ response' = [endpoint |-> "/phones/{phone_id}/complete",
                        phone_id |-> phone_id,
                        status |-> get_complete_phone_data(phone_id).status,
                        body |-> get_complete_phone_data(phone_id)]
        /\ UNCHANGED <<pureVars, process_all, importVars, topicVars, models_loaded, storeVars, analysis, runs>>

\* GET /reviews with with_sentiment=False
get_reviews_plain(phone_id, limit) ==
    LET rows == {[review_id |-> r.review_id, phone_id |-> r.phone_id,
                  review_text |-> r.review_text] : r \in ReviewsOf(phone_id)}
    IN Limit(SortSeq(SetToSeq(rows), LAMBDA x, y : x.review_id > y.review_id),
             limit)

ReviewLimitParams == {1, 100}

\* GET /reviews?phone_id=
GetReviews ==
    \E phone_id \in PhoneIdParams, limit \in ReviewLimitParams,
       with_sentiment \in BOOLEAN :
        /\ response' = [endpoint |-> "/reviews", phone_id |-> phone_id,
                        status |-> 200,
                        body |-> IF with_sentiment
                                 THEN get_reviews(phone_id, limit)
                                 ELSE get_reviews_plain(phone_id, limit)]
        /\ UNCHANGED <<pureVars, process_all, importVars, topicVars, models_loaded, storeVars, analysis, runs>>

\* GET /sentiments?phone_id=
GetSentiments ==
    \E phone_id \in PhoneIdParams :
        /\ response' = [endpoint |-> "/sentiments", phone_id |-> phone_id,
                        status |-> 200, body |-> get_sentiments(phone_id)]
        /\ UNCHANGED <<pureVars, process_all, importVars, topicVars, models_loaded, storeVars, analysis, runs>>

\* GET /topics?phone_id=
GetTopics ==
    \E phone_id \in PhoneIdParams :
        /\ response' = [endpoint |-> "/topics", phone_id |-> phone_id,
                        status |-> 200, body |-> get_topics(phone_id)]
        /\ UNCHANGED <<pureVars, process_all, importVars, topicVars, models_loaded, storeVars, analysis, runs>>

(***************************************************************************)
(* The sentiment classifier (external): a label and a confidence, or an    *)
(* exception.                                                              *)
(***************************************************************************)
NeutralThreshold == 70

Scores == {0, 69, 70, 100}
ClassifierResults == [label : {"POSITIVE", "NEGATIVE"}, score : Scores]
\* the results on either side of the threshold
ThresholdResults ==
    {r \in ClassifierResults : r.score \in {NeutralThreshold - 1, NeutralThreshold}}

\* result['label'].lower()
label_lower(label) ==
    CASE label = "POSITIVE" -> "positive"
      [] label = "NEGATIVE" -> "negative"
      [] OTHER -> label

\* analyze_text: the label after the confidence remap
analyze_text_label(label, score) ==
    IF label = "positive" /\ score < NeutralThreshold THEN "neutral"
    ELSE IF label = "negative" /\ score < NeutralThreshold THEN "neutral"
    ELSE label

\* run_sentiment_analysis with the threshold compared by <=
run_sentiment_label_inclusive(label, score) ==
    IF label = "positive" /\ score <= NeutralThreshold THEN "neutral"
    ELSE IF label = "negative" /\ score <= NeutralThreshold THEN "neutral"
    ELSE label

\* run_sentiment_analysis: the label after the confidence remap
run_sentiment_label(label, score) ==
    IF label = "positive" /\ score < NeutralThreshold THEN "neutral"
    ELSE IF label = "negative" /\ score < NeutralThreshold THEN "neutral"
    ELSE label

(***************************************************************************)
(* ml_api.analyze_text                                                     *)
(***************************************************************************)
NoAnalysis == [status |-> 0]

\* the tagger (external): the candidate words it yields, or an exception
CandidateWords == { <<"a", "b">>, <<"x", "_", "y">> }
MaxCandidates == 2
CandidateLists == SeqsUpTo(CandidateWords, MaxCandidates)

\* freq[w] = freq.get(w, 0) + 1
Freq(words, w) == Cardinality({i \in 1..Len(words) : words[i] = w})

\* the keys of freq, in insertion order
RECURSIVE FreqKeys(_, _)
FreqKeys(words, seen) ==
    IF words = <<>> THEN <<>>
    ELSE IF Head(words) = <<>> \/ Head(words) \in seen
         THEN FreqKeys(Tail(words), seen)
         ELSE <<Head(words)>> \o FreqKeys(Tail(words), seen \cup {Head(words)})

\* sorted(freq.items(), key=lambda kv: kv[1], reverse=True): stable
RECURSIVE InsertByFreq(_, _, _)
InsertByFreq(sorted, w, words) ==
    IF sorted = <<>> THEN <<w>>
    ELSE IF Freq(words, Head(sorted)) >= Freq(words, w)
         THEN <<Head(sorted)>> \o InsertByFreq(Tail(sorted), w, words)
         ELSE <<w>> \o sorted

RECURSIVE SortByFreq(_, _)
SortByFreq(keys, words) ==
    IF keys = <<>> THEN <<>>
    ELSE InsertByFreq(SortByFreq(SubSeq(keys, 1, Len(keys) - 1), words),
                      keys[Len(keys)], words)

TopWords(words) ==
    LET sorted == SortByFreq(FreqKeys(words, {}), words) IN
    SubSeq(sorted, 1, IF Len(sorted) < 3 THEN Len(sorted) ELSE 3)

\* the topics of analyze_text, given the candidate words the tagger yields on
\* the cleaned text, or that it raises
analyze_text_topics(raw_text, candidate_words, tagger_raises) ==
    LET cleaned == clean_text(raw_text) IN
    IF cleaned = <<>> \/ tagger_raises THEN <<>>
    ELSE LET raw_topics == TopWords(candidate_words)
             label_text == IF raw_topics = <<>> THEN <<>>
                           ELSE make_topic_label(raw_topics)
         IN IF label_text = <<>> THEN <<>> ELSE <<label_text>>

RequestTexts ==
    { <<>>, <<" ", "\t">>,
      <<" ", "a", "b", " ">>,
      <<"a", "b", " ", "X", "y", " ", "a", "b", "!", "1">> }

\* the response to a request that passed both checks and was classified
AnalyzeTextResponse(text, out, topic_list) ==
    LET label == label_lower(out.label)
        score == out.score
    IN [status |-> 200, text |-> text, result |-> out,
        sentiment |-> analyze_text_label(label, score),
        confidence |-> score, topics |-> topic_list]

AnalyzeText ==
    /\ \E text \in RequestTexts :
        LET raw_text == strip(text) IN
        \/ /\ ~models_loaded
           /\ analysis' = [status |-> 500, text |-> text]
        \/ /\ models_loaded
           /\ Len(raw_text) = 0
           /\ analysis' = [status |-> 400, text |-> text]
        \/ /\ models_loaded
           /\ Len(raw_text) # 0
           \* the classifier raises: nothing catches it
           /\ analysis' = [status |-> 500, text |-> text]
        \/ /\ models_loaded
           /\ Len(raw_text) # 0
           /\ \E out \in ClassifierResults :
                \/ \E candidate_words \in CandidateLists :
                      analysis' = AnalyzeTextResponse(text, out,
                          analyze_text_topics(raw_text, candidate_words, FALSE))
                \/ analysis' = AnalyzeTextResponse(text, out,
                          analyze_text_topics(raw_text, <<>>, TRUE))
    /\ UNCHANGED <<pureVars, process_all, importVars, topicVars, models_loaded, storeVars, runs, response>>

\* the response is delivered
AnalyzeTextReturn ==
    /\ analysis # NoAnalysis
    /\ analysis' = NoAnalysis
    /\ UNCHANGED <<pureVars, process_all, importVars, topicVars, models_loaded, storeVars, runs, response>>

(***************************************************************************)
(* ml_api.run_sentiment_analysis, one request per element of Runs          *)
(***************************************************************************)
Runs == {1, 2}
BatchLimit == 10000

\* skipped counts the reviews passed over as too short; the code keeps no
\* such count
IdleRun == [pc |-> "idle"]

\* every order in which the store may return k of the rows S
RECURSIVE Orderings(_, _)
Orderings(S, k) ==
    IF k = 0 \/ S = {} THEN {<<>>}
    ELSE UNION {{<<x>> \o t : t \in Orderings(S \ {x}, k - 1)} : x \in S}

\* SELECT ... FROM reviews r LEFT JOIN sentiments s ... WHERE s.review_id IS NULL
UnprocessedReviews(conn) ==
    {r \in Visible(reviews, conn) :
        ~\E s \in Visible(sentiments, conn) : s.review_id = r.review_id}

\* a row of another open transaction holds the unique key (or the row)
LockedByOther(rows, conn) ==
    \E s \in rows : \/ s.txn \notin {0, conn}
                    \/ (s.upd # <<>> /\ s.upd[1].txn # conn)

\* INSERT INTO sentiments ... with no key to collide on
InsertSentimentAlways(conn, review_id, label, score) ==
    sentiments \cup
        {[sentiment_id |-> NextId({s.sentiment_id : s \in sentiments}),
          review_id |-> review_id, sentiment_label |-> label,
          sentiment_score |-> score, txn |-> conn, upd |-> <<>>]}

\* INSERT INTO sentiments ... ON DUPLICATE KEY UPDATE ...
UpsertSentiment(conn, review_id, label, score) ==
    LET same == {s \in sentiments : SentimentKey(s) = review_id} IN
    IF same = {}
    THEN sentiments \cup
            {[sentiment_id |-> NextId({s.sentiment_id : s \in sentiments}),
              review_id |-> review_id, sentiment_label |-> label,
              sentiment_score |-> score, txn |-> conn, upd |-> <<>>]}
    ELSE (sentiments \ same) \cup
            { IF s.txn = conn
              THEN [s EXCEPT !.sentiment_label = label, !.sentiment_score = score]
              ELSE [s EXCEPT !.upd = <<[sentiment_label |-> label,
                                        sentiment_score |-> score,
                                        txn |-> conn]>>] : s \in same }

\* a /run-sentiment without the model check of its first line
RunSentimentStartUnchecked(p) ==
    /\ runs[p].pc = "idle"
    /\ \E selected \in Orderings(UnprocessedReviews(p),
                    IF Cardinality(UnprocessedReviews(p)) < BatchLimit
                    THEN Cardinality(UnprocessedReviews(p)) ELSE BatchLimit) :
            runs' = [runs EXCEPT ![p] =
                [pc |-> "loop", reviews |-> selected, i |-> 1,
                 processed |-> 0, errors |-> 0, skipped |-> 0]]
    /\ UNCHANGED <<pureVars, process_all, importVars, topicVars, models_loaded, storeVars, analysis, response>>

\* POST /run-sentiment arrives: the model check, get_db(), the SELECT
RunSentimentStart(p) ==
    /\ runs[p].pc = "idle"
    /\ IF ~models_loaded
       THEN runs' = [runs EXCEPT ![p] = [pc |-> "done", response |-> [status |-> 500]]]
       ELSE \E selected \in Orderings(UnprocessedReviews(p),
                    IF Cardinality(UnprocessedReviews(p)) < BatchLimit
                    THEN Cardinality(UnprocessedReviews(p)) ELSE BatchLimit) :
                runs' = [runs EXCEPT ![p] =
                    [pc |-> "loop", reviews |-> selected, i |-> 1,
                     processed |-> 0, errors |-> 0, skipped |-> 0]]
    /\ UNCHANGED <<pureVars, process_all, importVars, topicVars, models_loaded, storeVars, analysis, response>>

\* the LIMIT of the SELECT scaled down to the stores explored, so that the
\* reviews without a sentiment row can outnumber one batch
ScaledBatchLimit == 1

\* POST /run-sentiment with the models loaded and the scaled LIMIT
RunSentimentStartScaled(p) ==
    /\ runs[p].pc = "idle"
    /\ models_loaded
    /\ \E selected \in Orderings(UnprocessedReviews(p),
                    IF Cardinality(UnprocessedReviews(p)) < ScaledBatchLimit
                    THEN Cardinality(UnprocessedReviews(p))
                    ELSE ScaledBatchLimit) :
            runs' = [runs EXCEPT ![p] =
                [pc |-> "loop", reviews |-> selected, i |-> 1,
                 processed |-> 0, errors |-> 0, skipped |-> 0]]
    /\ UNCHANGED <<pureVars, process_all, importVars, topicVars, models_loaded, storeVars, analysis, response>>

\* one turn of "for review in reviews": a short review is passed over
RunSentimentSkip(p) ==
    /\ runs[p].pc = "loop"
    /\ runs[p].i <= Len(runs[p].reviews)
    /\ Len(strip(runs[p].reviews[runs[p].i].review_text)) < MinTextLen
    /\ runs' = [runs EXCEPT ![p].i = @ + 1, ![p].skipped = @ + 1]
    /\ UNCHANGED <<pureVars, process_all, importVars, topicVars, models_loaded, storeVars, analysis, response>>

\* one turn of the loop: the review is classified as out and its row written
RunSentimentClassify(p, out) ==
    /\ runs[p].pc = "loop"
    /\ runs[p].i <= Len(runs[p].reviews)
    /\ LET review == runs[p].reviews[runs[p].i] IN
       /\ Len(strip(review.review_text)) >= MinTextLen
       /\ ~LockedByOther({s \in sentiments : s.review_id = review.review_id}, p)
       /\ LET label == run_sentiment_label(label_lower(out.label), out.score) IN
            /\ sentiments' = UpsertSentiment(p, review.review_id, label, out.score)
            /\ runs' = [runs EXCEPT ![p].i = @ + 1, ![p].processed = @ + 1]
    /\ UNCHANGED <<pureVars, process_all, importVars, topicVars, models_loaded, brands, phones, reviews, topics,
                   review_topics, analysis, response>>

\* one turn of the loop: the classifier or the INSERT raises (a lock wait
\* that times out, among others) and the except clause counts it
RunSentimentError(p) ==
    /\ runs[p].pc = "loop"
    /\ runs[p].i <= Len(runs[p].reviews)
    /\ Len(strip(runs[p].reviews[runs[p].i].review_text)) >= MinTextLen
    /\ runs' = [runs EXCEPT ![p].i = @ + 1, ![p].errors = @ + 1]
    /\ UNCHANGED <<pureVars, process_all, importVars, topicVars, models_loaded, storeVars, analysis, response>>

\* sentiment ids grow without limit when rolled-back inserts are repeated;
\* the model follows them up to this id
MaxSentimentId == 3

\* run p has issued the INSERT for its review and waits for a row lock that
\* run q holds
WaitsFor(p, q) ==
    /\ p # q
    /\ runs[p].pc = "loop"
    /\ runs[p].i <= Len(runs[p].reviews)
    /\ Len(strip(runs[p].reviews[runs[p].i].review_text)) >= MinTextLen
    /\ \E s \in sentiments :
        /\ s.review_id = runs[p].reviews[runs[p].i].review_id
        /\ s.txn = q \/ (s.upd # <<>> /\ s.upd[1].txn = q)

\* the store rolls the open transaction of conn back
RollbackSentiments(rows, conn) ==
    {IF r.upd # <<>> /\ r.upd[1].txn = conn THEN [r EXCEPT !.upd = <<>>] ELSE r
        : r \in {x \in rows : x.txn # conn}}

\* one turn of the loop: two runs wait for each other's row locks; the store
\* picks run p as the victim, rolls its whole transaction back and fails its
\* INSERT, and the except clause counts one error
RunSentimentDeadlock(p) ==
    /\ \E q \in Runs : WaitsFor(p, q) /\ WaitsFor(q, p)
    /\ \A s \in sentiments : s.sentiment_id <= MaxSentimentId
    /\ sentiments' = RollbackSentiments(sentiments, p)
    /\ runs' = [runs EXCEPT ![p].i = @ + 1, ![p].errors = @ + 1]
    /\ UNCHANGED <<pureVars, process_all, importVars, topicVars, models_loaded,
                   brands, phones, reviews, topics, review_topics, analysis,
                   response>>

\* conn.commit(), close, and the response
RunSentimentCommit(p) ==
    /\ runs[p].pc = "loop"
    /\ runs[p].i > Len(runs[p].reviews)
    /\ sentiments' = CommitSentiments(sentiments, p)
    /\ runs' = [runs EXCEPT ![p] =
            [pc |-> "done",
             response |-> [status |-> 200, processed |-> runs[p].processed,
                           errors |-> runs[p].errors,
                           total_reviews |-> Len(runs[p].reviews)]]]
    /\ UNCHANGED <<pureVars, process_all, importVars, topicVars, models_loaded, brands, phones, reviews, topics,
                   review_topics, analysis, response>>

\* the response is delivered; the next request may come
RunSentimentReturn(p) ==
    /\ runs[p].pc = "done"
    /\ runs' = [runs EXCEPT ![p] = IdleRun]
    /\ UNCHANGED <<pureVars, process_all, importVars, topicVars, models_loaded, storeVars, analysis, response>>

(***************************************************************************)
(* import_csv.import_csv, one invocation per element of Importers.  A cell  *)
(* of the file is the text between two delimiters.                          *)
(***************************************************************************)
Importers == {1, 2}
ImportConn(k) == Cardinality(Runs) + k
IdleImport == [pc |-> "idle"]

\* the texts pandas.read_csv reads as NaN unless told otherwise
NaValues ==
    {<<>>, <<"#", "N", "/", "A">>, <<"#", "N", "/", "A", " ", "N", "/", "A">>,
     <<"#", "N", "A">>, <<"-", "1", ".", "#", "I", "N", "D">>,
     <<"-", "1", ".", "#", "Q", "N", "A", "N">>, <<"-", "N", "a", "N">>,
     <<"-", "n", "a", "n">>, <<"1", ".", "#", "I", "N", "D">>,
     <<"1", ".", "#", "Q", "N", "A", "N">>, <<"<", "N", "A", ">">>,
     <<"N", "/", "A">>, <<"N", "A">>, <<"N", "U", "L", "L">>,
     <<"N", "a", "N">>, <<"N", "o", "n", "e">>, <<"n", "/", "a">>,
     <<"n", "a", "n">>, <<"n", "u", "l", "l">>}

\* pd.read_csv(csv_path, dtype=str).fillna('')
read_csv(file) ==
    [i \in DOMAIN file |->
        [c \in DOMAIN file[i] |->
            IF file[i][c] \in NaValues THEN <<>> ELSE file[i][c]]]

\* the row the loop is at, and its three stripped fields
ImportRow(k) == imports[k].df[imports[k].i]
ImportBrandName(k) == strip(ImportRow(k).brand_name)
ImportPhoneName(k) == strip(ImportRow(k).phone_name)
ImportReviewText(k) == strip(ImportRow(k).review_text)

\* if not brand or not phone or not review
SkippedRow(row) ==
    \/ strip(row.brand_name) = <<>>
    \/ strip(row.phone_name) = <<>>
    \/ strip(row.review_text) = <<>>

AtRow(k) ==
    /\ imports[k].pc = "row"
    /\ imports[k].i <= Len(imports[k].df)

\* {row[1]: row[0] for row in cursor.fetchall()}
LoadBrandsMap(conn) ==
    [name \in {b.brand_name : b \in Visible(brands, conn)} |->
        (CHOOSE b \in Visible(brands, conn) : b.brand_name = name).brand_id]

\* {(row[2], row[1]): row[0] for row in cursor.fetchall()}
LoadPhonesMap(conn) ==
    [key \in {<<ph.brand_id, ph.phone_name>> : ph \in Visible(phones, conn)} |->
        (CHOOSE ph \in Visible(phones, conn) :
            <<ph.brand_id, ph.phone_name>> = key).phone_id]

\* an INSERT INTO brands that no unique key stops
InsertBrandAlways(conn, brand) ==
    brands \cup {[brand_id |-> NextId({b.brand_id : b \in brands}),
                  brand_name |-> brand, txn |-> conn]}

\* a row another open transaction has inserted holds the unique key
KeyHeldByOther(rows, conn) == \E x \in rows : x.txn \notin {0, conn}

\* INSERT IGNORE INTO brands (brand_name)
InsertIgnoreBrand(conn, brand) ==
    IF \E b \in brands : BrandKey(b) = brand THEN brands
    ELSE brands \cup {[brand_id |-> NextId({b.brand_id : b \in brands}),
                       brand_name |-> brand, txn |-> conn]}

\* INSERT IGNORE INTO phones (brand_id, phone_name)
InsertIgnorePhone(conn, brand_id, phone) ==
    IF \E ph \in phones : PhoneKey(ph) = <<brand_id, phone>> THEN phones
    ELSE phones \cup {[phone_id |-> NextId({ph.phone_id : ph \in phones}),
                       brand_id |-> brand_id, phone_name |-> phone,
                       txn |-> conn]}

\* an insert that leaves out a review the phone already has
InsertReviewIfNew(conn, phone_id, review) ==
    IF \E r \in reviews : r.phone_id = phone_id /\ r.review_text = review
    THEN reviews
    ELSE reviews \cup {[review_id |-> NextId({r.review_id : r \in reviews}),
                        phone_id |-> phone_id, review_text |-> review,
                        txn |-> conn]}

\* INSERT INTO reviews (phone_id, review_text)
InsertReview(conn, phone_id, review) ==
    reviews \cup {[review_id |-> NextId({r.review_id : r \in reviews}),
                   phone_id |-> phone_id, review_text |-> review,
                   txn |-> conn]}

\* read_csv, get_db() and the two SELECTs that fill the caches; store_before
\* records the store the invocation found, for the properties
ImportStart(k) ==
    /\ imports[k].pc = "idle"
    /\ imports' = [imports EXCEPT ![k] =
            [pc |-> "row", df |-> read_csv(csv), i |-> 1,
             brands_map |-> LoadBrandsMap(ImportConn(k)),
             phones_map |-> LoadPhonesMap(ImportConn(k)),
             brand_id |-> 0,
             store_before |-> [brands |-> brands, phones |-> phones,
                               reviews |-> reviews]]]
    /\ UNCHANGED <<pureVars, process_all, csv, topicVars, models_loaded, storeVars, analysis, runs,
                   response>>

\* a row with an empty field: continue
ImportSkipRow(k) ==
    /\ AtRow(k)
    /\ SkippedRow(ImportRow(k))
    /\ imports' = [imports EXCEPT ![k].i = @ + 1]
    /\ UNCHANGED <<pureVars, process_all, csv, topicVars, models_loaded, storeVars, analysis, runs,
                   response>>

\* brand in brands_map
ImportBrandCached(k) ==
    /\ AtRow(k)
    /\ ~SkippedRow(ImportRow(k))
    /\ ImportBrandName(k) \in DOMAIN imports[k].brands_map
    /\ imports' = [imports EXCEPT
            ![k].pc = "phone",
            ![k].brand_id = imports[k].brands_map[ImportBrandName(k)]]
    /\ UNCHANGED <<pureVars, process_all, csv, topicVars, models_loaded, storeVars, analysis, runs,
                   response>>

\* brand not in brands_map: INSERT IGNORE and conn.commit(), which also
\* commits the reviews inserted so far; the INSERT waits while another
\* transaction holds the same name uncommitted
ImportBrandCreate(k) ==
    /\ AtRow(k)
    /\ ~SkippedRow(ImportRow(k))
    /\ ImportBrandName(k) \notin DOMAIN imports[k].brands_map
    /\ ~KeyHeldByOther({b \in brands : BrandKey(b) = ImportBrandName(k)},
                       ImportConn(k))
    /\ brands' = CommitRows(InsertIgnoreBrand(ImportConn(k), ImportBrandName(k)),
                            ImportConn(k))
    /\ phones' = CommitRows(phones, ImportConn(k))
    /\ reviews' = CommitRows(reviews, ImportConn(k))
    /\ imports' = [imports EXCEPT ![k].pc = "brand_select"]
    /\ UNCHANGED <<pureVars, process_all, csv, topicVars, models_loaded, sentiments, topics,
                   review_topics, analysis, runs, response>>

\* SELECT brand_id FROM brands WHERE brand_name = %s, into the cache
ImportBrandSelect(k) ==
    /\ imports[k].pc = "brand_select"
    /\ \E b \in Visible(brands, ImportConn(k)) :
        /\ b.brand_name = ImportBrandName(k)
        /\ imports' = [imports EXCEPT
                ![k].pc = "phone",
                ![k].brands_map = (ImportBrandName(k) :> b.brand_id) @@ @,
                ![k].brand_id = b.brand_id]
    /\ UNCHANGED <<pureVars, process_all, csv, topicVars, models_loaded, storeVars, analysis, runs,
                   response>>

\* key in phones_map
ImportPhoneCached(k) ==
    /\ imports[k].pc = "phone"
    /\ <<imports[k].brand_id, ImportPhoneName(k)>> \in DOMAIN imports[k].phones_map
    /\ imports' = [imports EXCEPT ![k].pc = "review"]
    /\ UNCHANGED <<pureVars, process_all, csv, topicVars, models_loaded, storeVars, analysis, runs,
                   response>>

\* a creation of a phone whose commit leaves the reviews inserted so far open
ImportPhoneCreateAlone(k) ==
    /\ imports[k].pc = "phone"
    /\ <<imports[k].brand_id, ImportPhoneName(k)>>
            \notin DOMAIN imports[k].phones_map
    /\ ~KeyHeldByOther({ph \in phones :
            PhoneKey(ph) = <<imports[k].brand_id, ImportPhoneName(k)>>},
                       ImportConn(k))
    /\ phones' = CommitRows(InsertIgnorePhone(ImportConn(k), imports[k].brand_id,
                                              ImportPhoneName(k)),
                            ImportConn(k))
    /\ brands' = CommitRows(brands, ImportConn(k))
    /\ reviews' = reviews
    /\ imports' = [imports EXCEPT ![k].pc = "phone_select"]
    /\ UNCHANGED <<pureVars, process_all, csv, topicVars, models_loaded, sentiments, topics,
                   review_topics, analysis, runs, response>>

\* key not in phones_map: INSERT IGNORE and conn.commit()
ImportPhoneCreate(k) ==
    /\ imports[k].pc = "phone"
    /\ <<imports[k].brand_id, ImportPhoneName(k)>>
            \notin DOMAIN imports[k].phones_map
    /\ ~KeyHeldByOther({ph \in phones :
            PhoneKey(ph) = <<imports[k].brand_id, ImportPhoneName(k)>>},
                       ImportConn(k))
    /\ phones' = CommitRows(InsertIgnorePhone(ImportConn(k), imports[k].brand_id,
                                              ImportPhoneName(k)),
                            ImportConn(k))
    /\ brands' = CommitRows(brands, ImportConn(k))
    /\ reviews' = CommitRows(reviews, ImportConn(k))
    /\ imports' = [imports EXCEPT ![k].pc = "phone_select"]
    /\ UNCHANGED <<pureVars, process_all, csv, topicVars, models_loaded, sentiments, topics,
                   review_topics, analysis, runs, response>>

\* SELECT phone_id FROM phones WHERE brand_id = %s AND phone_name = %s
ImportPhoneSelect(k) ==
    /\ imports[k].pc = "phone_select"
    /\ \E ph \in Visible(phones, ImportConn(k)) :
        /\ ph.brand_id = imports[k].brand_id
        /\ ph.phone_name = ImportPhoneName(k)
        /\ imports' = [imports EXCEPT
                ![k].pc = "review",
                ![k].phones_map =
                    (<<imports[k].brand_id, ImportPhoneName(k)>> :> ph.phone_id) @@ @]
    /\ UNCHANGED <<pureVars, process_all, csv, topicVars, models_loaded, storeVars, analysis, runs,
                   response>>

\* INSERT INTO reviews, and on to the next row
ImportReview(k) ==
    /\ imports[k].pc = "review"
    /\ reviews' = InsertReview(ImportConn(k),
            imports[k].phones_map[<<imports[k].brand_id, ImportPhoneName(k)>>],
            ImportReviewText(k))
    /\ imports' = [imports EXCEPT ![k].pc = "row", ![k].i = @ + 1]
    /\ UNCHANGED <<pureVars, process_all, csv, topicVars, models_loaded, brands, phones, sentiments,
                   topics, review_topics, analysis, runs, response>>

\* after the last row: conn.commit(), close
ImportCommit(k) ==
    /\ imports[k].pc = "row"
    /\ imports[k].i > Len(imports[k].df)
    /\ brands' = CommitRows(brands, ImportConn(k))
    /\ phones' = CommitRows(phones, ImportConn(k))
    /\ reviews' = CommitRows(reviews, ImportConn(k))
    /\ imports' = [imports EXCEPT ![k].pc = "done"]
    /\ UNCHANGED <<pureVars, process_all, csv, topicVars, models_loaded, sentiments, topics,
                   review_topics, analysis, runs, response>>

\* what a connection that closes without a commit leaves of its inserts
RollbackRows(rows, conn) == {x \in rows : x.txn # conn}

\* an exception anywhere in the loop or in the last commit: import_csv
\* catches none, the invocation ends there and the server rolls back what
\* its connection had not committed.  An exception between an INSERT IGNORE
\* and its commit leaves the store as one before the INSERT IGNORE does.
ImportAbort(k) ==
    /\ imports[k].pc \in {"row", "brand_select", "phone", "phone_select", "review"}
    /\ brands' = RollbackRows(brands, ImportConn(k))
    /\ phones' = RollbackRows(phones, ImportConn(k))
    /\ reviews' = RollbackRows(reviews, ImportConn(k))
    /\ imports' = [imports EXCEPT ![k].pc = "aborted"]
    /\ UNCHANGED <<pureVars, process_all, csv, topicVars, models_loaded, sentiments, topics,
                   review_topics, analysis, runs, response>>

(***************************************************************************)
(* ml_api.run_topic_modeling.  BERTopic is external: fit_transform either   *)
(* raises or returns a topic per document (-1 for an outlier) and the words *)
(* of every topic.  fits is the list of the fit_transform calls made.       *)
(***************************************************************************)
MinPhoneReviews == 10
MinDocs == 10
MinWords == 5
TopicConn == Cardinality(Runs) + Cardinality(Importers) + 1
IdleTopicRun == [pc |-> "idle"]

\* the unique key INSERT IGNORE INTO review_topics relies on
ReviewTopicKey(row) == <<row.review_id, row.topic_id>>

\* SELECT ... FROM phones p INNER JOIN reviews r ... GROUP BY ... HAVING
\* COUNT(r.review_id) >= 10
PhonesWithReviews(conn) ==
    {[phone_id |-> ph.phone_id, phone_name |-> ph.phone_name,
      review_count |-> Cardinality({r \in Visible(reviews, conn) :
                                      r.phone_id = ph.phone_id})]
        : ph \in {x \in Visible(phones, conn) :
            Cardinality({r \in Visible(reviews, conn) : r.phone_id = x.phone_id})
                >= MinPhoneReviews}}

\* ORDER BY review_count DESC, in any order among equal counts
PhoneOrders(conn) ==
    {o \in Orderings(PhonesWithReviews(conn), Cardinality(PhonesWithReviews(conn))) :
        \A i \in 1..(Len(o) - 1) : o[i].review_count >= o[i + 1].review_count}

\* cleaned and len(cleaned.split()) >= 5
UsableReview(text) ==
    /\ clean_text(text) # <<>>
    /\ WordCount(clean_text(text)) >= MinWords

\* review_ids: the phone's reviews that pass, in the order fetched
UsableReviewIds(conn, phone_id) ==
    SortSeq(SetToSeq({r.review_id : r \in {x \in Visible(reviews, conn) :
                        x.phone_id = phone_id /\ UsableReview(x.review_text)}}),
            <)

\* a threshold that wants more than 10 documents
EnoughDocsAbove(n_docs) == n_docs > MinDocs

\* the negation of: if len(docs) < 10
EnoughDocs(n_docs) == ~(n_docs < MinDocs)

\* min_df = 1 if n_docs < 10 else 2 if n_docs < 20 else 3
AdaptiveMinDf(n_docs) == IF n_docs < 10 THEN 1 ELSE IF n_docs < 20 THEN 2 ELSE 3
\* max_df = 1.0 if n_docs < 10 else 0.9 if n_docs < 20 else 0.8 (hundredths)
AdaptiveMaxDf(n_docs) == IF n_docs < 10 THEN 100 ELSE IF n_docs < 20 THEN 90 ELSE 80

\* what fit_transform and get_topic may return
FitShapes == {"outliers", "one", "two"}
FitWords == {"distinct", "same", "short"}
FitResults == [shape : FitShapes, words : FitWords]

\* topics[i], the topic of document i
DocTopic(fit, i) ==
    CASE fit.shape = "outliers" -> -1
      [] fit.shape = "one" -> 0
      [] OTHER -> i % 2

\* topic_model.get_topic(topic_id), the words without their weights
TopicWordsOf(fit, topic_id) ==
    IF topic_id = 0
    THEN IF fit.words = "short" THEN << <<"a", "b">>, <<"r", "s">> >>
         ELSE << <<"a", "b">>, <<"r", "s">>, <<"x", "_", "y">>, <<"b">> >>
    ELSE IF fit.words = "distinct"
         THEN << <<"r", "s">>, <<"a", "b">>, <<"x", "y">> >>
         ELSE << <<"a", "b">>, <<"r", "s">>, <<"x", "_", "y">>, <<"b">> >>

\* probs[i, topic_id], hundredths
DocScore(fit, i) == IF fit.shape = "one" THEN 90 ELSE 50

\* set(topics), in the order the loop takes them
UniqueTopics(fit, n_docs) ==
    SortSeq(SetToSeq({DocTopic(fit, i) : i \in 1..n_docs}), <)

\* the messages appended to results
SkippedMessage(phone_name, n_docs) ==
    [kind |-> "Skipped", phone_name |-> phone_name, n |-> n_docs]
PhoneErrorMessage(phone_name) ==
    [kind |-> "error", phone_name |-> phone_name, n |-> 0]
FailedMessage(phone_name) ==
    [kind |-> "failed completely", phone_name |-> phone_name, n |-> 0]
CreatedMessage(phone_name, topics_created) ==
    [kind |-> "topics created", phone_name |-> phone_name, n |-> topics_created]

TopicPhone == topic_run.phones[topic_run.idx]

AtPhone ==
    /\ topic_run.pc = "phone"
    /\ topic_run.idx <= Len(topic_run.phones)

\* POST /run-topics arrives: the model check, get_db(), the phones SELECT
RunTopicsStart ==
    /\ topic_run.pc = "idle"
    /\ IF ~models_loaded
       THEN topic_run' = [pc |-> "done", phones |-> <<>>, fits |-> <<>>,
                          response |-> [status |-> 500]]
       ELSE \E selected \in PhoneOrders(TopicConn) :
                topic_run' = [pc |-> "phone", phones |-> selected, idx |-> 1,
                              results |-> <<>>, fits |-> <<>>,
                              review_ids |-> <<>>, fit |-> <<>>,
                              pending |-> <<>>, topics_created |-> 0]
    /\ UNCHANGED <<pureVars, process_all, importVars, models_loaded, storeVars, analysis,
                   runs, response>>

\* a pass without the per-phone try: the error reaches the outer except
RunTopicsPhoneErrorAborts ==
    /\ AtPhone
    /\ topic_run' = [pc |-> "done", phones |-> topic_run.phones,
                     fits |-> topic_run.fits, response |-> [status |-> 500]]
    /\ UNCHANGED <<pureVars, process_all, importVars, models_loaded, storeVars, analysis,
                   runs, response>>

\* the reviews SELECT (or the cleaning) raises: except Exception as phone_error
RunTopicsPhoneError ==
    /\ AtPhone
    /\ topic_run' = [topic_run EXCEPT
            !.results = Append(@, PhoneErrorMessage(TopicPhone.phone_name)),
            !.idx = @ + 1]
    /\ UNCHANGED <<pureVars, process_all, importVars, models_loaded, storeVars, analysis,
                   runs, response>>

\* if len(docs) < 10: results.append(...); continue
RunTopicsSkip ==
    /\ AtPhone
    /\ LET review_ids == UsableReviewIds(TopicConn, TopicPhone.phone_id) IN
        /\ ~EnoughDocs(Len(review_ids))
        /\ topic_run' = [topic_run EXCEPT
                !.results = Append(@, SkippedMessage(TopicPhone.phone_name,
                                                     Len(review_ids))),
                !.idx = @ + 1]
    /\ UNCHANGED <<pureVars, process_all, importVars, models_loaded, storeVars, analysis,
                   runs, response>>

\* the primary configuration: create_topic_model() and fit_transform(docs)
PrimaryFit(phone_id, n_docs) ==
    [phone_id |-> phone_id, n_docs |-> n_docs, ngram_range |-> <<1, 2>>,
     min_df |-> AdaptiveMinDf(n_docs), max_df |-> AdaptiveMaxDf(n_docs)]

\* a retry that builds the model with its default arguments again
RetryFitWithDefaults(phone_id, n_docs) ==
    [phone_id |-> phone_id, n_docs |-> n_docs, ngram_range |-> <<1, 2>>,
     min_df |-> AdaptiveMinDf(n_docs), max_df |-> AdaptiveMaxDf(n_docs)]

\* create_topic_model(ngram_range=(1, 1), min_df=1, max_df=1.0)
RetryFit(phone_id, n_docs) ==
    [phone_id |-> phone_id, n_docs |-> n_docs, ngram_range |-> <<1, 1>>,
     min_df |-> 1, max_df |-> 100]

RunTopicsFit(fit) ==
    /\ AtPhone
    /\ LET review_ids == UsableReviewIds(TopicConn, TopicPhone.phone_id) IN
        /\ EnoughDocs(Len(review_ids))
        /\ topic_run' = [topic_run EXCEPT
                !.fits = Append(@, PrimaryFit(TopicPhone.phone_id, Len(review_ids))),
                !.review_ids = review_ids,
                !.fit = <<fit>>,
                !.pending = UniqueTopics(fit, Len(review_ids)),
                !.topics_created = 0,
                !.pc = "topics"]
    /\ UNCHANGED <<pureVars, process_all, importVars, models_loaded, storeVars, analysis,
                   runs, response>>

\* the primary fit raises: except Exception as first_error
RunTopicsFitFails ==
    /\ AtPhone
    /\ LET review_ids == UsableReviewIds(TopicConn, TopicPhone.phone_id) IN
        /\ EnoughDocs(Len(review_ids))
        /\ topic_run' = [topic_run EXCEPT
                !.fits = Append(@, PrimaryFit(TopicPhone.phone_id, Len(review_ids))),
                !.review_ids = review_ids,
                !.pc = "retry"]
    /\ UNCHANGED <<pureVars, process_all, importVars, models_loaded, storeVars, analysis,
                   runs, response>>

\* the retry with safer parameters succeeds
RunTopicsRetry(fit) ==
    /\ topic_run.pc = "retry"
    /\ topic_run' = [topic_run EXCEPT
            !.fits = Append(@, RetryFit(TopicPhone.phone_id,
                                        Len(topic_run.review_ids))),
            !.fit = <<fit>>,
            !.pending = UniqueTopics(fit, Len(topic_run.review_ids)),
            !.topics_created = 0,
            !.pc = "topics"]
    /\ UNCHANGED <<pureVars, process_all, importVars, models_loaded, storeVars, analysis,
                   runs, response>>

\* the retry raises too: except Exception as retry_error
RunTopicsRetryFails ==
    /\ topic_run.pc = "retry"
    /\ topic_run' = [topic_run EXCEPT
            !.fits = Append(@, RetryFit(TopicPhone.phone_id,
                                        Len(topic_run.review_ids))),
            !.results = Append(@, FailedMessage(TopicPhone.phone_name)),
            !.idx = @ + 1,
            !.pc = "phone"]
    /\ UNCHANGED <<pureVars, process_all, importVars, models_loaded, storeVars, analysis,
                   runs, response>>

\* for topic_id in unique_topics: an outlier topic or one of fewer than
\* three words is passed over
RunTopicsPassTopic ==
    /\ topic_run.pc = "topics"
    /\ topic_run.pending # <<>>
    /\ \/ Head(topic_run.pending) = -1
       \/ Len(TopicWordsOf(topic_run.fit[1], Head(topic_run.pending))) < 3
    /\ topic_run' = [topic_run EXCEPT !.pending = Tail(@)]
    /\ UNCHANGED <<pureVars, process_all, importVars, models_loaded, storeVars, analysis,
                   runs, response>>

\* INSERT IGNORE INTO topics, lastrowid or the SELECT, then INSERT IGNORE
\* INTO review_topics for every document of the topic
RunTopicsStoreTopic ==
    /\ topic_run.pc = "topics"
    /\ topic_run.pending # <<>>
    /\ LET topic_id == Head(topic_run.pending)
           fit == topic_run.fit[1]
           topic_words == TopicWordsOf(fit, topic_id)
           topic_label == make_topic_label(SubSeq(topic_words, 1, 3))
           key == <<TopicPhone.phone_id, topic_label>>
           existing == {t \in topics : TopicKey(t) = key}
           topic_db_id == IF existing = {}
                          THEN NextId({t.topic_id : t \in topics})
                          ELSE (CHOOSE t \in existing : TRUE).topic_id
           docs == {i \in 1..Len(topic_run.review_ids) : DocTopic(fit, i) = topic_id}
       IN /\ topic_id # -1
          /\ Len(topic_words) >= 3
          /\ topics' = IF existing # {} THEN topics
                       ELSE topics \cup
                            {[topic_id |-> topic_db_id,
                              phone_id |-> TopicPhone.phone_id,
                              topic_label |-> topic_label,
                              representative_terms |->
                                  SubSeq(topic_words, 1,
                                         IF Len(topic_words) < 5
                                         THEN Len(topic_words) ELSE 5),
                              txn |-> TopicConn]}
          /\ review_topics' = review_topics \cup
                {[review_id |-> topic_run.review_ids[i], topic_id |-> topic_db_id,
                  relevance_score |-> DocScore(fit, i), txn |-> TopicConn]
                    : i \in {j \in docs :
                        ~\E a \in review_topics :
                            ReviewTopicKey(a) = <<topic_run.review_ids[j], topic_db_id>>}}
          /\ topic_run' = [topic_run EXCEPT !.pending = Tail(@),
                                            !.topics_created = @ + 1]
    /\ UNCHANGED <<pureVars, process_all, importVars, models_loaded, brands, phones, reviews,
                   sentiments, analysis, runs, response>>

\* the statements of one topic raise: except Exception as topic_error
RunTopicsTopicError ==
    /\ topic_run.pc = "topics"
    /\ topic_run.pending # <<>>
    /\ Head(topic_run.pending) # -1
    /\ topic_run' = [topic_run EXCEPT !.pending = Tail(@)]
    /\ UNCHANGED <<pureVars, process_all, importVars, models_loaded, storeVars, analysis,
                   runs, response>>

\* results.append(f"... {topics_created} topics created"), the next phone
RunTopicsPhoneDone ==
    /\ topic_run.pc = "topics"
    /\ topic_run.pending = <<>>
    /\ topic_run' = [topic_run EXCEPT
            !.results = Append(@, CreatedMessage(TopicPhone.phone_name,
                                                 topic_run.topics_created)),
            !.idx = @ + 1,
            !.pc = "phone"]
    /\ UNCHANGED <<pureVars, process_all, importVars, models_loaded, storeVars, analysis,
                   runs, response>>

\* conn.commit(), close, and the response
RunTopicsCommit ==
    /\ topic_run.pc = "phone"
    /\ topic_run.idx > Len(topic_run.phones)
    /\ topics' = CommitRows(topics, TopicConn)
    /\ review_topics' = CommitRows(review_topics, TopicConn)
    /\ topic_run' = [pc |-> "done", phones |-> topic_run.phones,
                     fits |-> topic_run.fits,
                     response |-> [status |-> 200,
                                   phones_processed |-> Len(topic_run.phones),
                                   results |-> topic_run.results]]
    /\ UNCHANGED <<pureVars, process_all, importVars, models_loaded, brands, phones, reviews,
                   sentiments, analysis, runs, response>>

\* get_db() or a statement outside the per-phone try raises: the outer
\* except answers 500, and the connection is dropped with its transaction
RunTopicsFails ==
    /\ models_loaded
    /\ topic_run.pc \in {"idle", "phone"}
    /\ topics' = {t \in topics : t.txn # TopicConn}
    /\ review_topics' = {a \in review_topics : a.txn # TopicConn}
    /\ topic_run' = [pc |-> "done",
                     phones |-> IF topic_run.pc = "idle" THEN <<>>
                                ELSE topic_run.phones,
                     fits |-> IF topic_run.pc = "idle" THEN <<>>
                              ELSE topic_run.fits,
                     response |-> [status |-> 500]]
    /\ UNCHANGED <<pureVars, process_all, importVars, models_loaded, brands,
                   phones, reviews, sentiments, analysis, runs, response>>

\* the response is delivered; the next request may come
RunTopicsReturn ==
    /\ topic_run.pc = "done"
    /\ topic_run' = IdleTopicRun
    /\ UNCHANGED <<pureVars, process_all, importVars, models_loaded, storeVars,
                   analysis, runs, response>>

(***************************************************************************)
(* ml_api.process_everything: run_sentiment_analysis() and then             *)
(* run_topic_modeling(), called as functions within one request.  The       *)
(* sentiment pass runs as run p, the topic pass as topic_run.               *)
(***************************************************************************)
IdleProcessAll == [pc |-> "idle"]

\* POST /process-all arrives
ProcessAllStart(p) ==
    /\ process_all.pc = "idle"
    /\ runs[p].pc = "idle"
    /\ topic_run.pc = "idle"
    /\ process_all' = [pc |-> "sentiment", run |-> p]
    /\ UNCHANGED <<pureVars, importVars, topicVars, models_loaded, storeVars,
                   analysis, runs, response>>

\* sentiment_result = run_sentiment_analysis(): the call
ProcessAllRunSentiment(p) ==
    /\ process_all.pc = "sentiment"
    /\ process_all.run = p
    /\ RunSentimentStart(p)

\* run_sentiment_analysis() returned, or raised and the except answers 500
ProcessAllSentimentDone(p) ==
    /\ process_all.pc = "sentiment"
    /\ process_all.run = p
    /\ runs[p].pc = "done"
    /\ runs' = [runs EXCEPT ![p] = IdleRun]
    /\ process_all' =
        IF runs[p].response.status = 200
        THEN [pc |-> "topics", run |-> p, sentiment_result |-> runs[p].response]
        ELSE [pc |-> "done", response |-> [status |-> 500]]
    /\ UNCHANGED <<pureVars, importVars, topicVars, models_loaded, storeVars,
                   analysis, response>>

\* a process-all that does not wait for the sentiment pass
ProcessAllRunTopicsEarly ==
    /\ process_all.pc = "sentiment"
    /\ RunTopicsStart

\* topic_result = run_topic_modeling(): the call
ProcessAllRunTopics ==
    /\ process_all.pc = "topics"
    /\ RunTopicsStart

\* run_topic_modeling() returned, or raised and the except answers 500
ProcessAllTopicsDone ==
    /\ process_all.pc = "topics"
    /\ topic_run.pc = "done"
    /\ topic_run' = IdleTopicRun
    /\ process_all' =
        IF topic_run.response.status = 200
        THEN [pc |-> "done",
              response |-> [status |-> 200,
                            sentiment_result |-> process_all.sentiment_result,
                            topic_result |-> topic_run.response]]
        ELSE [pc |-> "done", response |-> [status |-> 500]]
    /\ UNCHANGED <<pureVars, importVars, models_loaded, storeVars, analysis,
                   runs, response>>

\* the response is delivered
ProcessAllReturn ==
    /\ process_all.pc = "done"
    /\ process_all' = IdleProcessAll
    /\ UNCHANGED <<pureVars, importVars, topicVars, models_loaded, storeVars,
                   analysis, runs, response>>

(***************************************************************************)
(* ml_api.clear_processed_data and the status probes                        *)
(***************************************************************************)
\* a clear without the DELETE FROM topics
ClearAllButTopics ==
    /\ ~LockedByOther(sentiments, 0)
    /\ \A a \in review_topics : a.txn = 0
    /\ review_topics' = {}
    /\ sentiments' = {}
    /\ response' = [endpoint |-> "/clear-all", status |-> 200]
    /\ UNCHANGED <<pureVars, process_all, importVars, topicVars, models_loaded,
                   brands, phones, reviews, topics, analysis, runs>>

\* DELETE /clear-all: the three DELETEs and the commit; a DELETE waits for
\* the rows another transaction has written and not committed
ClearAll ==
    /\ ~LockedByOther(sentiments, 0)
    /\ \A t \in topics : t.txn = 0
    /\ \A a \in review_topics : a.txn = 0
    /\ review_topics' = {}
    /\ topics' = {}
    /\ sentiments' = {}
    /\ response' = [endpoint |-> "/clear-all", status |-> 200]
    /\ UNCHANGED <<pureVars, process_all, importVars, topicVars, models_loaded,
                   brands, phones, reviews, analysis, runs>>

\* round(part / total * 100, 1) if total > 0 else 0, in tenths of a percent
PercentageOf(part, total) ==
    IF total > 0 THEN RoundedPercentage(part, total) ELSE 0

\* ml_api GET /status: three SELECT COUNT(*)
get_processing_status ==
    LET total_reviews == Cardinality(Committed(reviews))
        processed_sentiments == Cardinality(Committed(sentiments))
    IN [total_reviews |-> total_reviews,
        processed_sentiments |-> processed_sentiments,
        unprocessed_reviews |-> total_reviews - processed_sentiments,
        total_topics |-> Cardinality(Committed(topics)),
        sentiment_percentage |-> PercentageOf(processed_sentiments, total_reviews)]

\* db_api GET /stats: five SELECT COUNT(*)
get_database_stats ==
    [brands |-> Cardinality(Committed(brands)),
     phones |-> Cardinality(Committed(phones)),
     reviews |-> Cardinality(Committed(reviews)),
     processed_sentiments |-> Cardinality(Committed(sentiments)),
     topics |-> Cardinality(Committed(topics))]

\* FROM reviews r LEFT JOIN sentiments s ON r.review_id = s.review_id
\*   LEFT JOIN topics t ON r.phone_id = t.phone_id
\*   LEFT JOIN review_topics rt ON r.review_id = rt.review_id
MlStatusRows ==
    UNION {
        LET ss == {x.sentiment_id : x \in SentimentsOf(r.review_id)}
            ts == {t.topic_id : t \in TopicsOf(r.phone_id)}
            rts == {<<a.review_id, a.topic_id>> :
                      a \in {b \in Committed(review_topics) :
                                b.review_id = r.review_id}}
            OrNull(S) == IF S = {} THEN {0} ELSE S
        IN {[review_id |-> r.review_id, sentiment_id |-> x, topic_id |-> t,
             rt |-> a] : x \in OrNull(ss), t \in OrNull(ts),
                         a \in IF rts = {} THEN {<<0, 0>>} ELSE rts}
        : r \in Committed(reviews)}

\* db_api GET /ml-status: COUNT(col) counts the joined rows where col is
\* not NULL
get_ml_processing_status ==
    LET rows == MlStatusRows
        total_reviews == Cardinality(rows)
        processed_sentiments == Cardinality({j \in rows : j.sentiment_id # 0})
    IN [total_reviews |-> total_reviews,
        processed_sentiments |-> processed_sentiments,
        unprocessed_reviews |-> total_reviews - processed_sentiments,
        processing_percentage |-> PercentageOf(processed_sentiments, total_reviews),
        total_topics |-> Cardinality({j \in rows : j.topic_id # 0}),
        topic_assignments |-> Cardinality({j \in rows : j.rt # <<0, 0>>})]

\* the response is delivered
ReturnResponse ==
    /\ response # NoResponse
    /\ response' = NoResponse
    /\ UNCHANGED <<pureVars, process_all, importVars, topicVars, models_loaded,
                   storeVars, analysis, runs>>

GetStatus ==
    /\ response' = [endpoint |-> "/status", status |-> 200,
                    body |-> get_processing_status]
    /\ UNCHANGED <<pureVars, process_all, importVars, topicVars, models_loaded,
                   storeVars, analysis, runs>>

GetStats ==
    /\ response' = [endpoint |-> "/stats", status |-> 200,
                    body |-> get_database_stats]
    /\ UNCHANGED <<pureVars, process_all, importVars, topicVars, models_loaded,
                   storeVars, analysis, runs>>

GetMlStatus ==
    /\ response' = [endpoint |-> "/ml-status", status |-> 200,
                    body |-> get_ml_processing_status]
    /\ UNCHANGED <<pureVars, process_all, importVars, topicVars, models_loaded,
                   storeVars, analysis, runs>>

ProcsIdle ==
    /\ analysis = NoAnalysis
    /\ runs = [p \in Runs |-> IdleRun]
    /\ response = NoResponse
    /\ csv = <<>>
    /\ imports = [k \in Importers |-> IdleImport]
    /\ topic_run = IdleTopicRun
    /\ process_all = IdleProcessAll

PureIdle ==
    /\ call = [fn |-> "none"]
    /\ ret = <<>>

(***************************************************************************)
(* The stateless helpers, called on inputs drawn from bounded sets.        *)
(***************************************************************************)
MaxCore == 3
MaxTopWords == 3

\* Review-like texts: a fixed opening followed by every short tail over
\* letters, capitals, digits, blanks and tabs.
TextOpenings ==
    { <<>>,
      <<"a", "b", "a", "b", "a", "b", "a", "b">>,
      <<"a", "1", "!", "1", "!", "1", "!", "1", "!">>,
      <<" ", " ", "a", "b", " ", "\t", "a", "B", "a">> }
TextTails == SeqsUpTo({"a", "B", "1", " ", "\t"}, MaxCore)
Texts == {o \o t : o \in TextOpenings, t \in TextTails}

\* Topic words as the topic model and the tagger hand them over.
TopicWords ==
    { <<"a", "b">>, <<"a", "B">>, <<"a", "_", "b">>, <<" ", "a">>,
      <<"_">>, <<" ">>, <<>> }
TopWordLists == SeqsUpTo(TopicWords, MaxTopWords)

\* Positive percentages, in tenths of a percent
Percentages == 0..1000

PureCalls ==
    [fn : {"clean_text"}, arg : Texts]
      \cup [fn : {"make_topic_label"}, arg : TopWordLists]
      \cup [fn : {"compute_star_rating_from_positive_percentage"}, arg : Percentages]

InitPure ==
    /\ call \in PureCalls
    /\ ret = <<>>
    /\ models_loaded = TRUE
    /\ EmptyStore
    /\ ProcsIdle

\* cleaned = clean_text(text)
CallCleanText ==
    /\ call.fn = "clean_text"
    /\ ret = <<>>
    /\ ret' = <<clean_text(call.arg)>>
    /\ UNCHANGED <<call, models_loaded, storeVars, procVars>>

\* clean_text applied to its own output
CallCleanTextAgain ==
    /\ call.fn = "clean_text"
    /\ Len(ret) = 1
    /\ ret' = Append(ret, clean_text(ret[1]))
    /\ UNCHANGED <<call, models_loaded, storeVars, procVars>>

CallMakeTopicLabel ==
    /\ call.fn = "make_topic_label"
    /\ ret = <<>>
    /\ ret' = <<make_topic_label(call.arg)>>
    /\ UNCHANGED <<call, models_loaded, storeVars, procVars>>

CallStarRating ==
    /\ call.fn = "compute_star_rating_from_positive_percentage"
    /\ ret = <<>>
    /\ ret' = <<compute_star_rating_from_positive_percentage(call.arg)>>
    /\ UNCHANGED <<call, models_loaded, storeVars, procVars>>

NextPure ==
    \/ CallCleanText
    \/ CallCleanTextAgain
    \/ CallMakeTopicLabel
    \/ CallStarRating

SpecPure == InitPure /\ [][NextPure]_vars

(***************************************************************************)
(* The pipeline API over a store that holds one phone and its imported     *)
(* reviews, none of them processed yet.                                    *)
(***************************************************************************)
MaxReviews == 2

\* a review long enough to be classified and one that is passed over
LongReview == <<"a", "b", " ", "X", "y", " ", "a", "b", "!", "1">>
ShortReview == <<" ", "a", "b", " ">>

\* n reviews of which the first k are long (review ids are arbitrary, and the
\* SELECT returns them in any order)
ReviewTables ==
    { {[review_id |-> i, phone_id |-> 1,
        review_text |-> IF i <= k THEN LongReview ELSE ShortReview,
        txn |-> 0] : i \in 1..n}
      : n \in 0..MaxReviews, k \in 0..MaxReviews } 

InitPipeline ==
    /\ PureIdle
    /\ models_loaded \in BOOLEAN
    /\ brands = {[brand_id |-> 1, brand_name |-> <<"A">>, txn |-> 0]}
    /\ phones = {[phone_id |-> 1, brand_id |-> 1, phone_name |-> <<"X">>, txn |-> 0]}
    /\ reviews \in ReviewTables
    /\ sentiments = {}
    /\ topics = {}
    /\ review_topics = {}
    /\ ProcsIdle

\* concurrent /run-sentiment requests
Next ==
    \E p \in Runs :
        \/ RunSentimentStart(p)
        \/ RunSentimentSkip(p)
        \/ \E out \in ThresholdResults : RunSentimentClassify(p, out)
        \/ RunSentimentError(p)
        \/ RunSentimentCommit(p)
        \/ RunSentimentReturn(p)

Spec == InitPipeline /\ [][Next]_vars

\* concurrent /run-sentiment requests on a store that resolves lock cycles
NextDeadlock ==
    \/ Next
    \/ \E p \in Runs : RunSentimentDeadlock(p)

SpecDeadlock == InitPipeline /\ [][NextDeadlock]_vars

\* /analyze-text and /run-sentiment requests served one at a time
SerialAnalyzeText ==
    /\ analysis = NoAnalysis
    /\ runs[1].pc = "idle"
    /\ AnalyzeText

SerialRunSentimentStart ==
    /\ analysis = NoAnalysis
    /\ RunSentimentStart(1)

NextRemap ==
    \/ SerialAnalyzeText
    \/ AnalyzeTextReturn
    \/ SerialRunSentimentStart
    \/ RunSentimentSkip(1)
    \/ \E out \in ClassifierResults : RunSentimentClassify(1, out)
    \/ RunSentimentError(1)
    \/ RunSentimentCommit(1)
    \/ RunSentimentReturn(1)

SpecRemap == InitPipeline /\ [][NextRemap]_vars

\* /run-sentiment invoked again and again, one pass after the other, with a
\* classifier that never raises and no other request
NextPasses ==
    \/ RunSentimentStartScaled(1)
    \/ RunSentimentSkip(1)
    \/ \E out \in ThresholdResults : RunSentimentClassify(1, out)
    \/ RunSentimentCommit(1)
    \/ RunSentimentReturn(1)

SpecPasses == InitPipeline /\ [][NextPasses]_vars /\ WF_vars(NextPasses)

(***************************************************************************)
(* The read API over stores of two phones, their reviews and the sentiment *)
(* rows of completed passes.                                               *)
(***************************************************************************)
MaxStoredReviews == 3

StoredSentiments == {"none", "positive", "neutral", "negative"}

\* review i belongs to phone of[i] and has the sentiment row has[i]; the
\* reviews of phone 1 were imported first
StoredReviews(of, has) ==
    {[review_id |-> i, phone_id |-> of[i],
      review_text |-> IF i % 2 = 1 THEN LongReview ELSE ShortReview \o <<"s">>,
      txn |-> 0] : i \in DOMAIN of}

StoredSentimentRows(has) ==
    {[sentiment_id |-> i, review_id |-> i, sentiment_label |-> has[i],
      sentiment_score |-> IF has[i] = "neutral" THEN 69 ELSE 70,
      txn |-> 0, upd |-> <<>>] : i \in {j \in DOMAIN has : has[j] # "none"}}

InitQuery ==
    /\ PureIdle
    /\ models_loaded = TRUE
    /\ brands = {[brand_id |-> 1, brand_name |-> <<"A">>, txn |-> 0],
                 [brand_id |-> 2, brand_name |-> <<"B">>, txn |-> 0]}
    /\ phones = {[phone_id |-> 1, brand_id |-> 1, phone_name |-> <<"X">>, txn |-> 0],
                 [phone_id |-> 2, brand_id |-> 2, phone_name |-> <<"Y">>, txn |-> 0]}
    /\ \E n \in 0..MaxStoredReviews :
         \E k \in 0..n, has \in [1..n -> StoredSentiments] :
            LET of == [i \in 1..n |-> IF i <= k THEN 1 ELSE 2] IN
            /\ reviews = StoredReviews(of, has)
            /\ sentiments = StoredSentimentRows(has)
    /\ topics \in {{}, {[topic_id |-> 1, phone_id |-> 1,
                         topic_label |-> <<"A", "b">>, txn |-> 0]}}
    /\ review_topics = {}
    /\ ProcsIdle

NextQuery ==
    \/ GetPhones
    \/ SearchPhones
    \/ GetCompletePhoneData

SpecQuery == InitQuery /\ [][NextQuery]_vars

\* the per-phone endpoints of the read API over the same stores
NextPhoneQuery ==
    \/ GetReviews
    \/ GetSentiments
    \/ GetTopics
    \/ GetCompletePhoneData

SpecPhoneQuery == InitQuery /\ [][NextPhoneQuery]_vars

\* the status probes over the same stores with up to two topics of phone 1
\* when it has reviews, its first review assigned to all of them or to none
StoredTopics ==
    {[topic_id |-> 1, phone_id |-> 1, topic_label |-> <<"A", "b">>, txn |-> 0],
     [topic_id |-> 2, phone_id |-> 1, topic_label |-> <<"B">>, txn |-> 0]}

StoredAssignments(rows) ==
    {[review_id |-> 1, topic_id |-> t.topic_id, relevance_score |-> 50,
      txn |-> 0] : t \in rows}

InitStatus ==
    /\ PureIdle
    /\ models_loaded = TRUE
    /\ brands = {[brand_id |-> 1, brand_name |-> <<"A">>, txn |-> 0],
                 [brand_id |-> 2, brand_name |-> <<"B">>, txn |-> 0]}
    /\ phones = {[phone_id |-> 1, brand_id |-> 1, phone_name |-> <<"X">>, txn |-> 0],
                 [phone_id |-> 2, brand_id |-> 2, phone_name |-> <<"Y">>, txn |-> 0]}
    /\ \E n \in 0..MaxStoredReviews :
         \E k \in 0..n, has \in [1..n -> StoredSentiments] :
            LET of == [i \in 1..n |-> IF i <= k THEN 1 ELSE 2] IN
            /\ reviews = StoredReviews(of, has)
            /\ sentiments = StoredSentimentRows(has)
            /\ topics \in (IF k >= 1 THEN SUBSET StoredTopics ELSE {{}})
            /\ review_topics \in {{}, StoredAssignments(topics)}
    /\ ProcsIdle

NextStatus ==
    \/ GetStatus
    \/ GetStats
    \/ GetMlStatus

SpecStatus == InitStatus /\ [][NextStatus]_vars

(***************************************************************************)
(* The importer run twice, one run after the other, on one file, over an   *)
(* empty store or over the store an earlier import left.                   *)
(***************************************************************************)
MaxRows == 2

BrandCells == {<<>>, <<"A">>, <<" ", "B">>}
PhoneCells == {<<" ">>, <<"X">>, <<"Y", " ">>}
ReviewCells == {<<>>, <<"N", "A">>, <<"a", "b", " ">>}

CsvRows ==
    [brand_name : BrandCells, phone_name : PhoneCells, review_text : ReviewCells]
CsvFiles == SeqsUpTo(CsvRows, MaxRows)

InitImport ==
    /\ PureIdle
    /\ models_loaded = TRUE
    /\ \/ EmptyStore
       \/ /\ brands = {[brand_id |-> 1, brand_name |-> <<"A">>, txn |-> 0]}
          /\ phones = {[phone_id |-> 1, brand_id |-> 1, phone_name |-> <<"X">>,
                        txn |-> 0]}
          /\ reviews = {[review_id |-> 1, phone_id |-> 1,
                         review_text |-> <<"a", "b">>, txn |-> 0]}
          /\ sentiments = {}
          /\ topics = {}
          /\ review_topics = {}
    /\ analysis = NoAnalysis
    /\ runs = [p \in Runs |-> IdleRun]
    /\ response = NoResponse
    /\ csv \in CsvFiles
    /\ imports = [k \in Importers |-> IdleImport]
    /\ topic_run = IdleTopicRun
    /\ process_all = IdleProcessAll

\* an invocation starts when no other one is under way
SerialImportStart(k) ==
    /\ \A j \in Importers \ {k} : imports[j].pc \in {"idle", "done"}
    /\ ImportStart(k)

NextImport ==
    \E k \in Importers :
        \/ SerialImportStart(k)
        \/ ImportSkipRow(k)
        \/ ImportBrandCached(k)
        \/ ImportBrandCreate(k)
        \/ ImportBrandSelect(k)
        \/ ImportPhoneCached(k)
        \/ ImportPhoneCreate(k)
        \/ ImportPhoneSelect(k)
        \/ ImportReview(k)
        \/ ImportCommit(k)

SpecImport == InitImport /\ [][NextImport]_vars

\* two invocations running at the same time on one file of brands and phones
\* that the store, empty so far, does not know
RaceRows ==
    [brand_name : {<<"A">>, <<" ", "B">>}, phone_name : {<<"X">>, <<"Y", " ">>},
     review_text : {<<>>, <<"a", "b", " ">>}]
RaceFiles == SeqsUpTo(RaceRows, MaxRows)

InitRace ==
    /\ PureIdle
    /\ models_loaded = TRUE
    /\ EmptyStore
    /\ analysis = NoAnalysis
    /\ runs = [p \in Runs |-> IdleRun]
    /\ response = NoResponse
    /\ csv \in RaceFiles
    /\ imports = [k \in Importers |-> IdleImport]
    /\ topic_run = IdleTopicRun
    /\ process_all = IdleProcessAll

NextRace ==
    \E k \in Importers :
        \/ ImportStart(k)
        \/ ImportSkipRow(k)
        \/ ImportBrandCached(k)
        \/ ImportBrandCreate(k)
        \/ ImportBrandSelect(k)
        \/ ImportPhoneCached(k)
        \/ ImportPhoneCreate(k)
        \/ ImportPhoneSelect(k)
        \/ ImportReview(k)
        \/ ImportCommit(k)

SpecRace == InitRace /\ [][NextRace]_vars

\* invocations one after another, each of which may end in an exception
AbortRows ==
    [brand_name : {<<"A">>, <<" ", "B">>}, phone_name : {<<"X">>, <<"Y", " ">>},
     review_text : {<<>>, <<"a", "b", " ">>}]
AbortFiles == SeqsUpTo(AbortRows, MaxRows)

InitAbort ==
    /\ PureIdle
    /\ models_loaded = TRUE
    /\ \/ EmptyStore
       \/ /\ brands = {[brand_id |-> 1, brand_name |-> <<"A">>, txn |-> 0]}
          /\ phones = {[phone_id |-> 1, brand_id |-> 1, phone_name |-> <<"X">>,
                        txn |-> 0]}
          /\ reviews = {[review_id |-> 1, phone_id |-> 1,
                         review_text |-> <<"a", "b">>, txn |-> 0]}
          /\ sentiments = {}
          /\ topics = {}
          /\ review_topics = {}
    /\ analysis = NoAnalysis
    /\ runs = [p \in Runs |-> IdleRun]
    /\ response = NoResponse
    /\ csv \in AbortFiles
    /\ imports = [k \in Importers |-> IdleImport]
    /\ topic_run = IdleTopicRun
    /\ process_all = IdleProcessAll

\* an invocation starts when every other one has ended or not begun
StartAfterEnd(k) ==
    /\ \A j \in Importers \ {k} : imports[j].pc \in {"idle", "done", "aborted"}
    /\ ImportStart(k)

NextAbort ==
    \E k \in Importers :
        \/ StartAfterEnd(k)
        \/ ImportSkipRow(k)
        \/ ImportBrandCached(k)
        \/ ImportBrandCreate(k)
        \/ ImportBrandSelect(k)
        \/ ImportPhoneCached(k)
        \/ ImportPhoneCreate(k)
        \/ ImportPhoneSelect(k)
        \/ ImportReview(k)
        \/ ImportCommit(k)
        \/ ImportAbort(k)

SpecAbort == InitAbort /\ [][NextAbort]_vars

(***************************************************************************)
(* The topic pass over two phones that have about ten reviews each, some   *)
(* of them too short or of too few words.                                  *)
(***************************************************************************)
MaxPhoneReviews == 11

FiveWordReview == <<"a", " ", "a", " ", "a", " ", "a", " ", "a", "b">>
FourWordReview == <<"a", " ", "a", " ", "a", " ", "a", "b", "b", "1">>

\* the phone's reviews: the first usable ones of five words, the others of
\* four words or shorter than ten characters
PhoneReviews(phone_id, first_id, total, usable) ==
    {[review_id |-> first_id + i - 1, phone_id |-> phone_id,
      review_text |-> IF i <= usable THEN FiveWordReview
                      ELSE IF i % 2 = 0 THEN FourWordReview ELSE ShortReview,
      txn |-> 0] : i \in 1..total}

ReviewCounts ==
    {c \in [total : (MinPhoneReviews - 1)..MaxPhoneReviews,
            usable : (MinDocs - 2)..MaxPhoneReviews] : c.usable <= c.total}

InitTopics ==
    /\ PureIdle
    /\ models_loaded \in BOOLEAN
    /\ brands = {[brand_id |-> 1, brand_name |-> <<"A">>, txn |-> 0]}
    /\ phones = {[phone_id |-> 1, brand_id |-> 1, phone_name |-> <<"X">>, txn |-> 0],
                 [phone_id |-> 2, brand_id |-> 1, phone_name |-> <<"Y">>, txn |-> 0]}
    /\ \E x \in ReviewCounts, y \in ReviewCounts :
         reviews = PhoneReviews(1, 1, x.total, x.usable)
                     \cup PhoneReviews(2, x.total + 1, y.total, y.usable)
    /\ sentiments = {}
    /\ topics = {}
    /\ review_topics = {}
    /\ ProcsIdle

NextTopics ==
    \/ RunTopicsStart
    \/ RunTopicsPhoneError
    \/ RunTopicsSkip
    \/ \E fit \in FitResults : RunTopicsFit(fit)
    \/ RunTopicsFitFails
    \/ \E fit \in FitResults : RunTopicsRetry(fit)
    \/ RunTopicsRetryFails
    \/ RunTopicsPassTopic
    \/ RunTopicsStoreTopic
    \/ RunTopicsTopicError
    \/ RunTopicsPhoneDone
    \/ RunTopicsCommit
    \/ RunTopicsFails

SpecTopics == InitTopics /\ [][NextTopics]_vars

(***************************************************************************)
(* Every pipeline operation, one request at a time, over a store with one  *)
(* phone of ten reviews, nine of them usable for topics, of which a        *)
(* previous pass has processed all but the last two, and a file to import  *)
(* that brings the tenth usable review.  The classifier and BERTopic       *)
(* answer with one result each, or raise.                                  *)
(***************************************************************************)
ProcessedBefore == MinPhoneReviews - 2
OneResult == [label |-> "POSITIVE", score |-> 100]
OneFit == [shape |-> "two", words |-> "short"]

InitAll ==
    /\ PureIdle
    /\ models_loaded \in BOOLEAN
    /\ brands = {[brand_id |-> 1, brand_name |-> <<"A">>, txn |-> 0]}
    /\ phones = {[phone_id |-> 1, brand_id |-> 1, phone_name |-> <<"X">>, txn |-> 0]}
    /\ reviews = PhoneReviews(1, 1, MinPhoneReviews, MinPhoneReviews - 1)
    /\ sentiments =
        {[sentiment_id |-> i, review_id |-> i, sentiment_label |-> "positive",
          sentiment_score |-> 100, txn |-> 0, upd |-> <<>>]
            : i \in 1..ProcessedBefore}
    /\ topics = {}
    /\ review_topics = {}
    /\ analysis = NoAnalysis
    /\ runs = [p \in Runs |-> IdleRun]
    /\ response = NoResponse
    /\ csv = <<[brand_name |-> <<" ", "B">>, phone_name |-> <<"Y">>,
                review_text |-> <<>>],
               [brand_name |-> <<"A">>, phone_name |-> <<"X">>,
                review_text |-> FiveWordReview]>>
    /\ imports = [k \in Importers |-> IdleImport]
    /\ topic_run = IdleTopicRun
    /\ process_all = IdleProcessAll

\* no request is being served
NoRequest ==
    /\ analysis = NoAnalysis
    /\ \A p \in Runs : runs[p].pc = "idle"
    /\ response = NoResponse
    /\ \A k \in Importers : imports[k].pc \in {"idle", "done"}
    /\ topic_run.pc = "idle"
    /\ process_all.pc = "idle"

\* the passes explored select at most MaxReviews reviews
SmallBatch == Cardinality(UnprocessedReviews(0)) <= MaxReviews

NextAnalyzeText == NoRequest /\ AnalyzeText
NextRunSentimentStart == NoRequest /\ SmallBatch /\ RunSentimentStart(1)
NextRunTopicsStart == NoRequest /\ RunTopicsStart
NextRunTopicsReturn == process_all.pc = "idle" /\ RunTopicsReturn
NextRunTopicsFails ==
    /\ topic_run.pc = "phone" \/ NoRequest \/ process_all.pc = "topics"
    /\ RunTopicsFails
NextProcessAllStart == NoRequest /\ SmallBatch /\ ProcessAllStart(2)
NextImportStart(k) == NoRequest /\ ImportStart(k)
NextClearAll == NoRequest /\ ClearAll
NextGetStatus == NoRequest /\ GetStatus

NextAll ==
    \/ NextAnalyzeText
    \/ AnalyzeTextReturn
    \/ NextRunSentimentStart
    \/ ProcessAllRunSentiment(2)
    \/ \E p \in Runs :
        \/ RunSentimentClassify(p, OneResult)
        \/ RunSentimentError(p)
        \/ RunSentimentCommit(p)
    \/ RunSentimentReturn(1)
    \/ NextRunTopicsStart
    \/ ProcessAllRunTopics
    \/ RunTopicsPhoneError
    \/ RunTopicsSkip
    \/ RunTopicsFit(OneFit)
    \/ RunTopicsFitFails
    \/ RunTopicsRetry(OneFit)
    \/ RunTopicsRetryFails
    \/ RunTopicsPassTopic
    \/ RunTopicsStoreTopic
    \/ RunTopicsTopicError
    \/ RunTopicsPhoneDone
    \/ RunTopicsCommit
    \/ NextRunTopicsFails
    \/ NextRunTopicsReturn
    \/ NextProcessAllStart
    \/ ProcessAllSentimentDone(2)
    \/ ProcessAllTopicsDone
    \/ ProcessAllReturn
    \/ NextImportStart(1)
    \/ ImportSkipRow(1)
    \/ ImportBrandCached(1)
    \/ ImportPhoneCached(1)
    \/ ImportReview(1)
    \/ ImportCommit(1)
    \/ NextClearAll
    \/ NextGetStatus
    \/ ReturnResponse

SpecAll == InitAll /\ [][NextAll]_vars

(***************************************************************************)
(* Properties                                                              *)
(***************************************************************************)

\* C1: a classifier output (label, c) gives the classifier's label when
\* c >= 0.7 and neutral when c < 0.7, in the response of analyze_text and in
\* the row run_sentiment_analysis writes; the label is one of positive,
\* neutral, negative and the confidence is c.
RemappedAsClaimed(out, label, score) ==
    LET given == IF out.label = "POSITIVE" THEN "positive" ELSE "negative" IN
    /\ out.score >= 70 => label = given
    /\ out.score < 70 => label = "neutral"
    /\ label \in {"positive", "neutral", "negative"}
    /\ score = out.score

AnalysisRemapped ==
    /\ analysis.status = 200 =>
          RemappedAsClaimed(analysis.result, analysis.sentiment, analysis.confidence)
    /\ \A s \in sentiments : s.sentiment_label \in {"positive", "neutral", "negative"}

\* a step of the pass that classifies a review as out leaves that review's
\* row with the remapped label and the score of out
ClassifyStepRemapped ==
    \A out \in ClassifierResults :
        RunSentimentClassify(1, out) =>
            \E s \in sentiments' :
                /\ s.review_id = runs[1].reviews[runs[1].i].review_id
                /\ RemappedAsClaimed(out, s.sentiment_label, s.sentiment_score)

C1_SentimentRemap == []AnalysisRemapped /\ [][ClassifyStepRemapped]_vars

\* a weak negative analysed to neutral, over a store in which a pass has
\* kept a positive at exactly 0.70
C1_Witness ==
    /\ analysis.status = 200
    /\ analysis.result = [label |-> "NEGATIVE", score |-> 69]
    /\ analysis.sentiment = "neutral"
    /\ analysis.confidence = 69
    /\ \E s \in sentiments :
          /\ s.txn = 0
          /\ s.sentiment_label = "positive"
          /\ s.sentiment_score = 70

\* C2: compute_star_rating_from_positive_percentage returns a value in
\* 1..5 that is at least the value it returns for every smaller percentage
\* (monotonically non-decreasing over [0,100]); 20, 40, 60 and 80 percent
\* map to 2, 3, 4 and 5 stars and anything below 20 percent maps to 1.
C2_StarRatingMonotoneWithBreakpoints ==
    (call.fn = "compute_star_rating_from_positive_percentage" /\ ret # <<>>) =>
        /\ ret[1] \in 1..5
        /\ \A q \in Percentages :
              /\ q <= call.arg =>
                    compute_star_rating_from_positive_percentage(q) <= ret[1]
              /\ q >= call.arg =>
                    compute_star_rating_from_positive_percentage(q) >= ret[1]
        /\ call.arg = 200 => ret[1] = 2
        /\ call.arg = 400 => ret[1] = 3
        /\ call.arg = 600 => ret[1] = 4
        /\ call.arg = 800 => ret[1] = 5
        /\ call.arg < 200 => ret[1] = 1

C2_Witness ==
    /\ call.fn = "compute_star_rating_from_positive_percentage"
    /\ call.arg = 800
    /\ ret = <<5>>

\* C4: clean_text returns only lowercase letters and single spaces (no
\* leading, trailing or consecutive space), and returns the empty string
\* when the input is empty or shorter than 10 characters once trimmed.
OnlyLowercaseAndSingleSpaces(s) ==
    /\ \A i \in 1..Len(s) : s[i] \in LowerLetters \cup {" "}
    /\ s # <<>> => (s[1] # " " /\ s[Len(s)] # " ")
    /\ \A i \in 1..(Len(s) - 1) : ~(s[i] = " " /\ s[i + 1] = " ")

C4_CleanTextOutputShape ==
    (call.fn = "clean_text" /\ ret # <<>>) =>
        /\ OnlyLowercaseAndSingleSpaces(ret[1])
        /\ (call.arg = <<>> \/ Len(strip(call.arg)) < 10) => ret[1] = <<>>

\* a text with capitals, digits, a tab and a run of blanks, long enough to
\* be cleaned, whose cleaned form keeps two words
C4_Witness ==
    /\ call.fn = "clean_text"
    /\ Len(strip(call.arg)) >= 10
    /\ \E i \in 1..Len(call.arg) : call.arg[i] = "B"
    /\ \E i \in 1..Len(call.arg) : call.arg[i] = "1"
    /\ \E i \in 1..(Len(call.arg) - 1) :
          call.arg[i] \in Whitespace /\ call.arg[i + 1] \in Whitespace
    /\ ret # <<>>
    /\ \E i \in 1..Len(ret[1]) : ret[1][i] = " "

\* C5: clean_text is idempotent: cleaning its own output gives that output.
C5_CleanTextIdempotent ==
    (call.fn = "clean_text" /\ Len(ret) = 2) => ret[2] = ret[1]

\* C6 as stated: one word comes back unchanged, two words X, Y give
\* "X and Y", three words X, Y, Z give "X, Y, and Z", X, Y, Z being the
\* input words.
C6_LabelFromInputWords ==
    (call.fn = "make_topic_label" /\ ret # <<>>) =>
        LET w == call.arg IN
        /\ Len(w) = 1 => ret[1] = w[1]
        /\ Len(w) = 2 => ret[1] = w[1] \o <<" ", "a", "n", "d", " ">> \o w[2]
        /\ Len(w) = 3 =>
              ret[1] = w[1] \o <<",", " ">> \o w[2]
                            \o <<",", " ", "a", "n", "d", " ">> \o w[3]

\* C6 amended: with blank words dropped and every other word shown with its
\* underscores turned into spaces, trimmed and title-cased, one word gives
\* that word, two give "X and Y", three give "X, Y, and Z", in input order.
IsBlank(w) == \A i \in 1..Len(w) : w[i] \in Whitespace
Shown(w) == title(strip([i \in 1..Len(w) |-> IF w[i] = "_" THEN " " ELSE w[i]]))

C6_LabelFromShownWords ==
    (call.fn = "make_topic_label" /\ ret # <<>>) =>
        LET w == SelectSeq(call.arg, LAMBDA x : ~IsBlank(x)) IN
        /\ Len(w) = 1 => ret[1] = Shown(w[1])
        /\ Len(w) = 2 =>
              ret[1] = Shown(w[1]) \o <<" ", "a", "n", "d", " ">> \o Shown(w[2])
        /\ Len(w) = 3 =>
              ret[1] = Shown(w[1]) \o <<",", " ">> \o Shown(w[2])
                            \o <<",", " ", "a", "n", "d", " ">> \o Shown(w[3])

\* three words, one of them with an underscore and one in mixed case
C6_Witness ==
    /\ call.fn = "make_topic_label"
    /\ call.arg = << <<"a", "_", "b">>, <<"a", "B">>, <<" ", "a">> >>
    /\ ret = << <<"A", " ", "B", ",", " ", "A", "b", ",", " ", "a", "n", "d", " ", "A">> >>

\* C10: a review has at most one sentiment row in every reachable state,
\* also when concurrent run_sentiment_analysis requests select and classify
\* the same unprocessed review.
C10_AtMostOneSentimentRow ==
    \A r \in reviews :
        Cardinality({s \in sentiments : s.review_id = r.review_id}) <= 1

\* both requests classified the only review: the first has committed its row
\* and the second has written over it
C10_Witness ==
    /\ Cardinality(reviews) = 1
    /\ runs[1].pc = "done"
    /\ runs[1].response.status = 200
    /\ runs[1].response.processed = 1
    /\ runs[2].pc = "loop"
    /\ runs[2].processed = 1
    /\ \E s \in sentiments : s.txn = 0 /\ s.upd # <<>> /\ s.upd[1].txn = 2
    /\ Cardinality(sentiments) = 1

\* C3: a phone with zero processed sentiment rows is reported with 3.0 stars
\* by the /phones listing, by /search and by /phones/{phone_id}/complete,
\* there both in phone.star_rating and in the top-level star_rating.
ZeroProcessed(phone_id) ==
    \A r \in ReviewsOf(phone_id) : SentimentsOf(r.review_id) = {}

C3_ZeroProcessedGivesThreeStars ==
    /\ response.endpoint = "/phones" =>
         \A i \in DOMAIN response.body :
            ZeroProcessed(response.body[i].phone_id)
                => response.body[i].star_rating = 3
    /\ response.endpoint = "/search" =>
         \A i \in DOMAIN response.body.phones :
            ZeroProcessed(response.body.phones[i].phone_id)
                => response.body.phones[i].star_rating = 3
    /\ (response.endpoint = "/phones/{phone_id}/complete"
            /\ response.status = 200
            /\ ZeroProcessed(response.body.phone.phone_id)) =>
         /\ response.body.phone.star_rating = 3
         /\ response.body.star_rating = 3

\* the listing endpoints alone do report 3.0
C3_ListingsGiveThreeStars ==
    /\ response.endpoint = "/phones" =>
         \A i \in DOMAIN response.body :
            ZeroProcessed(response.body[i].phone_id)
                => response.body[i].star_rating = 3
    /\ response.endpoint = "/search" =>
         \A i \in DOMAIN response.body.phones :
            ZeroProcessed(response.body.phones[i].phone_id)
                => response.body.phones[i].star_rating = 3

\* the rows of a file whose three fields are all non-empty after trimming
CompleteRows(file) == {i \in DOMAIN file : ~SkippedRow(file[i])}

\* the step that completes invocation k
ImportCompletes(k) == imports[k].pc = "row" /\ imports'[k].pc = "done"

\* what the completed invocation k added to the store it found, against the
\* complete rows of file
ImportedExactly(k, file) ==
    LET before == imports[k].store_before
        added == reviews' \ before.reviews
    IN /\ Cardinality(added) = Cardinality(CompleteRows(file))
       /\ \A r \in added :
            /\ r.txn = 0
            /\ \E i \in CompleteRows(file), ph \in phones', b \in brands' :
                /\ r.review_text = strip(file[i].review_text)
                /\ ph.phone_id = r.phone_id
                /\ ph.phone_name = strip(file[i].phone_name)
                /\ b.brand_id = ph.brand_id
                /\ b.brand_name = strip(file[i].brand_name)
       /\ \A b \in brands' \ before.brands :
            \E i \in CompleteRows(file) : b.brand_name = strip(file[i].brand_name)
       /\ \A ph \in phones' \ before.phones :
            \E i \in CompleteRows(file) : ph.phone_name = strip(file[i].phone_name)

\* C7: a completed import adds one review row per row of the file whose
\* brand, phone and review text are all non-empty after trimming, none for
\* any other row, and creates brand and phone rows only for names of such
\* rows.
C7_SkipsExactlyEmptyRows ==
    [][\A k \in Importers : ImportCompletes(k) => ImportedExactly(k, csv)]_vars

\* the same against the rows as read_csv and fillna hand them to the loop
C7_SkipsExactlyRowsReadAsEmpty ==
    [][\A k \in Importers :
        ImportCompletes(k) => ImportedExactly(k, imports[k].df)]_vars

\* C8: through sequential imports no two brand rows share a name and no two
\* phone rows share a (brand, phone name) pair, and every completed import
\* adds as many review rows as it has rows it does not skip, also when the
\* same file is imported again.
BrandNamesUnique ==
    \A a, b \in brands : a.brand_name = b.brand_name => a = b

PhonePairsUnique ==
    \A a, b \in phones :
        (a.brand_id = b.brand_id /\ a.phone_name = b.phone_name) => a = b

ReviewsGrow(k) ==
    Cardinality(reviews') =
        Cardinality(imports[k].store_before.reviews)
            + Cardinality(CompleteRows(imports[k].df))

C8_ReimportKeepsNamesUnique ==
    /\ [](BrandNamesUnique /\ PhonePairsUnique)
    /\ [][\A k \in Importers : ImportCompletes(k) => ReviewsGrow(k)]_vars

\* the same file imported twice, with rows that are not skipped
C8_Witness ==
    /\ \A k \in Importers : imports[k].pc = "done"
    /\ CompleteRows(read_csv(csv)) # {}
    /\ Cardinality(reviews) >= 2 * Cardinality(CompleteRows(read_csv(csv)))
    /\ Cardinality(brands) = 1

\* the topic pass has returned its "completed" response
TopicsCompleted == topic_run.pc = "done" /\ topic_run.response.status = 200

\* fit_transform was called for the phone
Attempted(phone_id) ==
    \E i \in DOMAIN topic_run.fits : topic_run.fits[i].phone_id = phone_id

ReviewCount(phone_id) == Cardinality({r \in reviews : r.phone_id = phone_id})

\* the phone's reviews that clean to at least five words
UsableCount(phone_id) ==
    Cardinality({r \in reviews :
        r.phone_id = phone_id /\ UsableReview(r.review_text)})

Reported(message) ==
    \E i \in DOMAIN topic_run.response.results :
        topic_run.response.results[i] = message

HasEntry(phone_name) ==
    \E i \in DOMAIN topic_run.response.results :
        topic_run.response.results[i].phone_name = phone_name

\* C9: a phone with exactly 9 usable cleaned reviews is skipped and reported
\* with "only 9 clean reviews", and modeling is attempted for a phone if and
\* only if it has at least 10 usable cleaned reviews.
C9_NineSkippedTenModelled ==
    TopicsCompleted =>
        \A ph \in phones :
            /\ UsableCount(ph.phone_id) = 9 =>
                /\ ~Attempted(ph.phone_id)
                /\ Reported(SkippedMessage(ph.phone_name, 9))
            /\ Attempted(ph.phone_id) <=> UsableCount(ph.phone_id) >= 10

\* C9, amended: modeling is attempted only for phones with at least 10 usable
\* cleaned reviews, and for each of them unless reading its reviews failed; a
\* phone with fewer usable reviews is reported as skipped, with their number,
\* when it has at least 10 reviews in all and reading them did not fail; a
\* phone with fewer than 10 reviews in all gets no entry in results.
C9_TenUsableModelledFewerReported ==
    TopicsCompleted =>
        \A ph \in phones :
            /\ Attempted(ph.phone_id) => UsableCount(ph.phone_id) >= MinDocs
            /\ (/\ UsableCount(ph.phone_id) >= MinDocs
                /\ ~Reported(PhoneErrorMessage(ph.phone_name)))
                    => Attempted(ph.phone_id)
            /\ (/\ UsableCount(ph.phone_id) < MinDocs
                /\ ReviewCount(ph.phone_id) >= MinPhoneReviews
                /\ ~Reported(PhoneErrorMessage(ph.phone_name)))
                    => Reported(SkippedMessage(ph.phone_name,
                                               UsableCount(ph.phone_id)))
            /\ ReviewCount(ph.phone_id) < MinPhoneReviews =>
                /\ ~HasEntry(ph.phone_name)
                /\ ~Attempted(ph.phone_id)

\* one phone skipped with 9 usable reviews of its 10, the other modelled
\* with exactly 10
C9_Witness ==
    /\ TopicsCompleted
    /\ \E ph \in phones :
        /\ UsableCount(ph.phone_id) = 9
        /\ ReviewCount(ph.phone_id) = 10
        /\ Reported(SkippedMessage(ph.phone_name, 9))
        /\ ~Attempted(ph.phone_id)
    /\ \E ph \in phones :
        /\ UsableCount(ph.phone_id) = 10
        /\ Attempted(ph.phone_id)

\* C11: no operation removes a committed sentiment, topic or review-topic
\* row, except clear-all, which empties the three tables and leaves the
\* brand, phone and review rows as they were.
SentimentIds(rows) == {x.sentiment_id : x \in Committed(rows)}
TopicIds(rows) == {t.topic_id : t \in Committed(rows)}
ReviewTopicIds(rows) == {<<a.review_id, a.topic_id>> : a \in Committed(rows)}

KeepsProcessedRows ==
    /\ SentimentIds(sentiments) \subseteq SentimentIds(sentiments')
    /\ TopicIds(topics) \subseteq TopicIds(topics')
    /\ ReviewTopicIds(review_topics) \subseteq ReviewTopicIds(review_topics')

ClearAllServed == response = NoResponse /\ response'.endpoint = "/clear-all"

C11_RowsLostOnlyByClearAll ==
    [][/\ ClearAllServed =>
            /\ sentiments' = {}
            /\ topics' = {}
            /\ review_topics' = {}
            /\ UNCHANGED <<brands, phones, reviews>>
       /\ ~ClearAllServed => KeepsProcessedRows]_vars

\* clear-all served on a store that had sentiment rows, and a topic pass
\* that has written topics since
C11_Witness ==
    /\ sentiments = {}
    /\ Committed(topics) # {}
    /\ Committed(review_topics) # {}
    /\ Cardinality(reviews) > MinPhoneReviews

\* C12: a pass that met a classification or insert failure still runs to
\* its commit and answers 200; its counters add up to the number of selected
\* reviews, and when it answers, every selected review of trimmed length of
\* at least 10 other than the failed ones has its committed sentiment row.
LongSelected(p) ==
    {i \in 1..Len(runs[p].reviews) :
        Len(strip(runs[p].reviews[i].review_text)) >= MinTextLen}

RowsOfSelected(p) ==
    {i \in LongSelected(p) :
        \E s \in Committed(sentiments') :
            s.review_id = runs[p].reviews[i].review_id}

PassCompletes(p) ==
    /\ runs'[p].response.status = 200
    /\ runs'[p].response.processed + runs'[p].response.errors
            + (Len(runs[p].reviews) - Cardinality(LongSelected(p)))
        = runs'[p].response.total_reviews

C12_FailureKeepsOtherRows ==
    [][\A p \in Runs :
        runs[p].pc = "loop" =>
            /\ runs'[p].pc \in {"loop", "done"}
            /\ runs'[p].pc = "done" =>
                /\ PassCompletes(p)
                /\ Cardinality(RowsOfSelected(p)) >=
                        Cardinality(LongSelected(p)) - runs'[p].response.errors]_vars

\* what holds in every interleaving: the pass is never aborted and its
\* counters add up
C12_FailureNeverAborts ==
    [][\A p \in Runs :
        runs[p].pc = "loop" =>
            /\ runs'[p].pc \in {"loop", "done"}
            /\ runs'[p].pc = "done" => PassCompletes(p)]_vars

\* a pass answered with one error and one processed review
C12_Witness ==
    \E p \in Runs :
        /\ runs[p].pc = "done"
        /\ runs[p].response.status = 200
        /\ runs[p].response.errors = 1
        /\ runs[p].response.processed = 1

\* C13: while the models are not loaded, analyze-text, run-sentiment,
\* run-topics and process-all answer 500 at once: no pass opens its
\* connection or calls a model, and no step of these requests changes a row
\* of any table.
MlRequestStep ==
    \/ analysis' # analysis
    \/ runs' # runs
    \/ topic_run' # topic_run
    \/ process_all' # process_all

C13_NoModelNoAttempt ==
    [][~models_loaded =>
        /\ MlRequestStep => UNCHANGED storeVars
        /\ analysis' # NoAnalysis => analysis'.status = 500
        /\ \A p \in Runs :
            /\ runs'[p].pc \in {"idle", "done"}
            /\ runs'[p].pc = "done" => runs'[p].response = [status |-> 500]
        /\ topic_run'.pc \in {"idle", "done"}
        /\ topic_run'.pc = "done" => topic_run'.response = [status |-> 500]
        /\ process_all'.pc = "done" =>
                process_all'.response = [status |-> 500]]_vars

\* process-all answered 500 without models, on a store that holds reviews
\* without a sentiment row
C13_Witness ==
    /\ ~models_loaded
    /\ process_all.pc = "done"
    /\ process_all.response.status = 500
    /\ UnprocessedReviews(0) # {}

\* C14: per phone the pass makes a primary attempt with bigrams and the
\* adaptive thresholds, then, only after that attempt failed, one retry with
\* unigrams, min_df 1 and max_df 1.0; when the retry fails too the phone is
\* recorded as failed, nothing is written for it and the pass turns to the
\* next phone.  No phone gets more than two attempts in a pass.
IsPrimaryAttempt(e) ==
    /\ e.ngram_range = <<1, 2>>
    /\ e.min_df = (IF e.n_docs < 20 THEN 2 ELSE 3)
    /\ e.max_df = (IF e.n_docs < 20 THEN 90 ELSE 80)

IsRetryAttempt(e) ==
    /\ e.ngram_range = <<1, 1>>
    /\ e.min_df = 1
    /\ e.max_df = 100

AttemptsOn(fits, phone_id) ==
    SelectSeq(fits, LAMBDA e : e.phone_id = phone_id)

WrittenFor(phone_id) ==
    {t \in topics : t.txn = TopicConn /\ t.phone_id = phone_id}

C14_TwoTierRetry ==
    [][/\ topic_run'.pc = "retry" =>
            /\ topic_run.pc = "phone"
            /\ Len(topic_run'.fits) = Len(topic_run.fits) + 1
            /\ IsPrimaryAttempt(topic_run'.fits[Len(topic_run'.fits)])
       /\ topic_run.pc = "retry" =>
            /\ Len(topic_run'.fits) = Len(topic_run.fits) + 1
            /\ IsRetryAttempt(topic_run'.fits[Len(topic_run'.fits)])
            /\ topic_run'.pc \in {"topics", "phone"}
            /\ topic_run'.pc = "phone" =>
                /\ topic_run'.idx = topic_run.idx + 1
                /\ topic_run'.results =
                        Append(topic_run.results,
                               FailedMessage(TopicPhone.phone_name))
                /\ UNCHANGED storeVars
                /\ WrittenFor(TopicPhone.phone_id) = {}
       /\ topic_run.pc = "idle" /\ topic_run'.pc # "idle" =>
            topic_run'.fits = <<>>
       /\ topic_run.pc = "topics" => topic_run'.fits = topic_run.fits
       /\ topic_run.pc = "phone" =>
            \/ topic_run'.fits = topic_run.fits
            \/ /\ Len(topic_run'.fits) = Len(topic_run.fits) + 1
               /\ IsPrimaryAttempt(topic_run'.fits[Len(topic_run'.fits)])
               /\ topic_run'.pc \in {"topics", "retry"}
       /\ topic_run'.pc # "idle" =>
            \A ph \in phones :
                LET tried == AttemptsOn(topic_run'.fits, ph.phone_id) IN
                /\ Len(tried) <= 2
                /\ Len(tried) >= 1 => IsPrimaryAttempt(tried[1])
                /\ Len(tried) = 2 => IsRetryAttempt(tried[2])]_vars

\* the pass is over: the first phone failed both attempts and has no topic,
\* the second one was modelled at its first attempt
C14_Witness ==
    /\ topic_run.pc = "done"
    /\ topic_run.response.status = 200
    /\ Len(topic_run.fits) = 3
    /\ topic_run.fits[1].phone_id = topic_run.fits[2].phone_id
    /\ \A t \in topics : t.phone_id # topic_run.fits[1].phone_id
    /\ \E t \in Committed(topics) : t.phone_id = topic_run.fits[3].phone_id

\* C15: a failure while one phone is handled (its reviews SELECT, a fit, the
\* statements of a topic) leaves the pass in its loop; the pass has one entry
\* in results for each phone it has left behind, and at its end it commits
\* what it wrote and answers 200 with one entry for every phone of at least
\* ten reviews and phones_processed equal to their number.
PerPhoneFailure ==
    \/ RunTopicsPhoneError
    \/ RunTopicsFitFails
    \/ RunTopicsRetryFails
    \/ RunTopicsTopicError

EligiblePhones == {ph \in phones : ReviewCount(ph.phone_id) >= MinPhoneReviews}

EntriesFor(results, phone_name) ==
    Len(SelectSeq(results, LAMBDA m : m.phone_name = phone_name))

PerPhoneEndpoints ==
    {"/reviews", "/sentiments", "/topics", "/phones/{phone_id}/complete"}

UnknownPhone(phone_id) ==
    ~\E ph \in Committed(phones) : ph.phone_id = phone_id

C16_UnknownPhoneNotFound ==
    (response.endpoint \in PerPhoneEndpoints /\ UnknownPhone(response.phone_id))
        => response.status = 404

\* what holds: the complete view answers 404 exactly for unknown phones, and
\* the other three answer 200 with nothing in the body
C16_OnlyCompleteViewNotFound ==
    /\ response.endpoint = "/phones/{phone_id}/complete" =>
            (response.status = 404 <=> UnknownPhone(response.phone_id))
    /\ (response.endpoint = "/reviews" /\ UnknownPhone(response.phone_id)) =>
            response.status = 200 /\ response.body = <<>>
    /\ (response.endpoint = "/sentiments" /\ UnknownPhone(response.phone_id)) =>
            response.status = 200 /\ response.body.total_reviews = 0
    /\ (response.endpoint = "/topics" /\ UnknownPhone(response.phone_id)) =>
            response.status = 200 /\ response.body = <<>>

\* C17: process-all starts the topic pass only after the sentiment pass has
\* committed and returned; the topic stage leaves the sentiment rows as the
\* first stage committed them, and when it fails process-all answers 500
\* with those rows still in the store.
AllSentimentsCommitted ==
    \A x \in sentiments : x.txn = 0 /\ x.upd = <<>>

C17_SentimentThenTopics ==
    [][/\ process_all'.pc = "sentiment" =>
            /\ topic_run'.pc = "idle"
            /\ UNCHANGED <<topics, review_topics>>
       /\ (process_all.pc = "sentiment" /\ process_all'.pc = "topics") =>
            /\ runs[process_all.run].pc = "done"
            /\ runs[process_all.run].response.status = 200
            /\ AllSentimentsCommitted
            /\ topic_run.pc = "idle"
       /\ process_all.pc = "topics" =>
            /\ UNCHANGED sentiments
            /\ process_all'.pc \in {"topics", "done"}
            /\ process_all'.pc = "done" =>
                /\ topic_run.pc = "done"
                /\ process_all'.response.status = topic_run.response.status]_vars

\* the topic stage has failed after a sentiment stage that classified the
\* two reviews left: process-all is about to answer 500, the rows are kept
C17_Witness ==
    /\ process_all.pc = "topics"
    /\ process_all.sentiment_result.processed = MinPhoneReviews - ProcessedBefore
    /\ topic_run.pc = "done"
    /\ topic_run.response.status = 500
    /\ Cardinality(Committed(sentiments)) = MinPhoneReviews

\* C18: /ml-status reports the number of review rows, of sentiment rows and
\* of topic rows, the same totals as /status and /stats, and its
\* unprocessed_reviews is the number of reviews without a sentiment row.
WithoutSentiment ==
    {r \in Committed(reviews) : SentimentsOf(r.review_id) = {}}

C18_MlStatusCountsRows ==
    response.endpoint = "/ml-status" =>
        /\ response.body.total_reviews = Cardinality(Committed(reviews))
        /\ response.body.processed_sentiments = Cardinality(Committed(sentiments))
        /\ response.body.total_topics = Cardinality(Committed(topics))
        /\ response.body.total_reviews = get_processing_status.total_reviews
        /\ response.body.total_reviews = get_database_stats.reviews
        /\ response.body.processed_sentiments = get_database_stats.processed_sentiments
        /\ response.body.total_topics = get_database_stats.topics
        /\ response.body.unprocessed_reviews = Cardinality(WithoutSentiment)

\* what holds: /status and /stats count the rows of each table
C18_StatusCountsRows ==
    /\ response.endpoint = "/status" =>
        /\ response.body.total_reviews = Cardinality(Committed(reviews))
        /\ response.body.processed_sentiments = Cardinality(Committed(sentiments))
        /\ response.body.total_topics = Cardinality(Committed(topics))
        /\ response.body.unprocessed_reviews = Cardinality(WithoutSentiment)
    /\ response.endpoint = "/stats" =>
        /\ response.body.reviews = Cardinality(Committed(reviews))
        /\ response.body.processed_sentiments = Cardinality(Committed(sentiments))
        /\ response.body.topics = Cardinality(Committed(topics))

\* C19: two invocations importing at the same time a file of brands and
\* phones the store does not know both run to their end; afterwards every
\* brand and every phone of the file has exactly one row, both invocations
\* hold the same ids for them, and the phone of the file's row has two
\* review rows for each of its complete rows.
RaceDone == \A k \in Importers : imports[k].pc = "done"

RowPair(row) == <<strip(row.brand_name), strip(row.phone_name)>>

FilePairs(df) == {RowPair(df[i]) : i \in CompleteRows(df)}

StoredPair(ph) ==
    <<(CHOOSE b \in brands : b.brand_id = ph.brand_id).brand_name, ph.phone_name>>

SelectFinds(k) ==
    /\ imports[k].pc = "brand_select" =>
            \E b \in Visible(brands, ImportConn(k)) :
                b.brand_name = ImportBrandName(k)
    /\ imports[k].pc = "phone_select" =>
            \E ph \in Visible(phones, ImportConn(k)) :
                /\ ph.brand_id = imports[k].brand_id
                /\ ph.phone_name = ImportPhoneName(k)
    /\ imports[k].pc = "review" =>
            <<imports[k].brand_id, ImportPhoneName(k)>>
                \in DOMAIN imports[k].phones_map

C19_ImportRaceBenign ==
    /\ \A k \in Importers : SelectFinds(k)
    /\ RaceDone =>
        LET df == imports[1].df IN
        /\ \A x \in brands \cup phones \cup reviews : x.txn = 0
        /\ BrandNamesUnique
        /\ PhonePairsUnique
        /\ {b.brand_name : b \in brands} = {pair[1] : pair \in FilePairs(df)}
        /\ \A ph \in phones : \E b \in brands : b.brand_id = ph.brand_id
        /\ {StoredPair(ph) : ph \in phones} = FilePairs(df)
        /\ imports[1].brands_map = imports[2].brands_map
        /\ imports[1].phones_map = imports[2].phones_map
        /\ \A r \in reviews : \E ph \in phones : ph.phone_id = r.phone_id
        /\ \A ph \in phones :
                Cardinality({r \in reviews : r.phone_id = ph.phone_id}) =
                    2 * Cardinality({i \in CompleteRows(df) :
                                        RowPair(df[i]) = StoredPair(ph)})

\* both invocations found the store empty, so both tried to create the brand
\* and the phone, and both have finished
C19_Witness ==
    /\ RaceDone
    /\ \A k \in Importers : imports[k].store_before.brands = {}
    /\ Cardinality(brands) = 1
    /\ Cardinality(phones) = 1
    /\ Cardinality(reviews) = 2 * MaxRows

\* C20: with no review arriving and no classification failure, passes
\* invoked again and again eventually leave every review of trimmed length
\* of at least 10 with a sentiment row, and from then on every pass reports
\* processed = 0.
AllLongProcessed ==
    \A r \in Committed(reviews) :
        Len(strip(r.review_text)) >= MinTextLen
            => \E x \in Committed(sentiments) : x.review_id = r.review_id

NothingLeftToProcess ==
    /\ AllLongProcessed
    /\ runs[1].pc = "done" => runs[1].response.processed = 0

C20_PassesReachCompletion ==
    models_loaded => <>[]NothingLeftToProcess

\* what holds: the passes reach completion when the reviews that no pass
\* ever gives a row, those shorter than 10 characters, do not fill a batch
ShortReviews ==
    {r \in Committed(reviews) : Len(strip(r.review_text)) < MinTextLen}

C20_PassesCompleteBelowCap ==
    (models_loaded /\ Cardinality(ShortReviews) < ScaledBatchLimit)
        => <>[]NothingLeftToProcess

\* C21: every phone in a /search result carries the star_rating and the
\* processed_sentiments count derived from all of its stored sentiment rows,
\* the ones /phones reports for it on the same store, whatever the query
\* and the sentiment_filter.
ListedPhone(phone_id) ==
    LET listing == get_phones(0, <<>>, 0)
    IN listing[CHOOSE i \in DOMAIN listing : listing[i].phone_id = phone_id]

AgreesWithListing(entry) ==
    /\ \E i \in DOMAIN get_phones(0, <<>>, 0) :
            get_phones(0, <<>>, 0)[i].phone_id = entry.phone_id
    /\ entry.star_rating = ListedPhone(entry.phone_id).star_rating
    /\ entry.processed_sentiments =
            ListedPhone(entry.phone_id).processed_sentiments

C21_SearchRatingAsListed ==
    response.endpoint = "/search" =>
        \A i \in DOMAIN response.body.phones :
            AgreesWithListing(response.body.phones[i])

\* what holds: without a sentiment_filter, the phones found by their name
\* are rated as in the listing
C21_SearchByNameRatingAsListed ==
    \A query \in QueryParams, brand_filter \in BrandParams,
       min_reviews \in MinReviewsParams :
        LET found == search_phones(query, "", brand_filter, min_reviews, 20).phones
        IN \A i \in DOMAIN found :
            Contains(found[i].phone_name, query) => AgreesWithListing(found[i])

\* the step in which invocation k ends in an exception
ImportAborts(k) == imports[k].pc # "aborted" /\ imports'[k].pc = "aborted"

\* row j of the file of invocation k names a brand, or a phone of its brand,
\* that neither the store the invocation found nor an earlier complete row has
BrandNewAt(k, j) ==
    LET df == imports[k].df
    IN /\ j \in CompleteRows(df)
       /\ \A b \in imports[k].store_before.brands :
            b.brand_name # strip(df[j].brand_name)
       /\ \A h \in CompleteRows(df) :
            h < j => strip(df[h].brand_name) # strip(df[j].brand_name)

PhoneNewAt(k, j) ==
    LET df == imports[k].df
        before == imports[k].store_before
    IN /\ j \in CompleteRows(df)
       /\ ~\E ph \in before.phones, b \in before.brands :
            /\ b.brand_id = ph.brand_id
            /\ b.brand_name = strip(df[j].brand_name)
            /\ ph.phone_name = strip(df[j].phone_name)
       /\ \A h \in CompleteRows(df) :
            h < j => \/ strip(df[h].brand_name) # strip(df[j].brand_name)
                     \/ strip(df[h].phone_name) # strip(df[j].phone_name)

\* the rows at which invocation k has created a brand or a phone so far
CreationsSoFar(k) ==
    {j \in DOMAIN imports[k].df :
        \/ j < imports[k].i /\ PhoneNewAt(k, j)
        \/ /\ j = imports[k].i
           /\ \/ /\ BrandNewAt(k, j)
                 /\ imports[k].pc \in {"brand_select", "phone", "phone_select", "review"}
              \/ /\ PhoneNewAt(k, j)
                 /\ imports[k].pc \in {"phone_select", "review"}}

LastCreation(k) ==
    IF CreationsSoFar(k) = {} THEN 0
    ELSE CHOOSE j \in CreationsSoFar(k) : \A h \in CreationsSoFar(k) : h <= j

\* the complete rows whose review invocation k inserted before its last creation
RowsBeforeLastCreation(k) ==
    {j \in CompleteRows(imports[k].df) : j < LastCreation(k)}

\* the review of row j of invocation k, as a persisted row r of the next state
ReviewOfRow(k, j, r) ==
    /\ r.txn = 0
    /\ r.review_text = strip(imports[k].df[j].review_text)
    /\ \E ph \in Committed(phones'), b \in Committed(brands') :
        /\ ph.phone_id = r.phone_id
        /\ ph.phone_name = strip(imports[k].df[j].phone_name)
        /\ b.brand_id = ph.brand_id
        /\ b.brand_name = strip(imports[k].df[j].brand_name)

\* what the aborted invocation k leaves in the store it found
PersistedAtAbort(k) ==
    LET added == reviews' \ imports[k].store_before.reviews
    IN /\ Cardinality(added) = Cardinality(RowsBeforeLastCreation(k))
       /\ \A r \in added : \E j \in RowsBeforeLastCreation(k) : ReviewOfRow(k, j, r)
       /\ \A j \in RowsBeforeLastCreation(k) : \E r \in added : ReviewOfRow(k, j, r)

ReviewsHavePhones ==
    \A r \in Committed(reviews) : \E ph \in Committed(phones) : ph.phone_id = r.phone_id

PhonesHaveBrands ==
    \A ph \in Committed(phones) : \E b \in Committed(brands) : b.brand_id = ph.brand_id

\* C22: an import that ends in an exception leaves persisted, of the reviews
\* it inserted, exactly those of the rows before its last creation of a brand
\* or a phone, and loses the later ones; at every moment every committed
\* review has a committed phone and every committed phone a committed brand.
C22_AbortKeepsUpToLastCreation ==
    /\ [][\A k \in Importers : ImportAborts(k) => PersistedAtAbort(k)]_vars
    /\ [](ReviewsHavePhones /\ PhonesHaveBrands)

\* an aborted invocation that kept a review and lost a later one
C22_Witness ==
    \E k \in Importers :
        /\ imports[k].pc = "aborted"
        /\ \A j \in Importers \ {k} : imports[j].pc = "idle"
        /\ reviews \ imports[k].store_before.reviews # {}
        /\ Cardinality(reviews \ imports[k].store_before.reviews)
            < Cardinality({j \in CompleteRows(imports[k].df) : j < imports[k].i})

====
